---- MODULE Spec2Model ----
(***************************************************************************)
(* YatriGuard backend: the red-zone store (RedZoneSystemFallback), the     *)
(* risk verdicts built on it, the rule-based detectors with their          *)
(* per-user buffers (RuleBasedSystemFallback), and the alert service with  *)
(* the WebSocket connection manager and the location pipeline of main.py.  *)
(*                                                                         *)
(* Units.  Latitudes and longitudes are integers in micro-degrees          *)
(* (26.9124 deg = 26912400), so every seeded vertex and every seeded       *)
(* centroid is exact.  Risk scores on the 0..10 scale are integers in      *)
(* tenths (4.0 = 40); a zone's risk_level stays the integer the code       *)
(* stores.  Accelerations are integers; a magnitude sqrt(x^2+y^2+z^2) is   *)
(* compared with a threshold T through x^2+y^2+z^2 against T^2.  Time is    *)
(* an integer number of seconds; speeds are integers in km/h; confidences  *)
(* and decelerations are integers in hundredths.                           *)
(***************************************************************************)
EXTENDS Integers, Sequences, FiniteSets, TLC

VARIABLES
    red_zones,       \* RedZoneSystemFallback.red_zones: the ordered zone list
    enhanced_ready,  \* enhanced_system is not None and enhanced_system.is_ready()
    n_added,         \* number of add_zone calls made so far (bounds the runs)
    op,              \* the operation that ran last
    arg,             \* its argument
    ret,             \* what it returned
    old_zones,       \* red_zones as it was when that operation started
    imu_data,        \* the IMU batch handed to the fall detector
    fall_alert,      \* what _detect_fall_rule_based returned for it
    now,             \* datetime.utcnow(), in seconds
    user_data_buffer,\* RuleBasedSystemFallback.user_data_buffer: user id -> buffer
    n_batches,       \* number of sensor batches received so far (bounds the runs)
    tasks,           \* the process_data calls in flight, each with its position
    running,         \* the task the event loop is executing, 0 when it is idle
    last_writer,     \* per user, the task whose batch was buffered last
    alert_storage,   \* AlertService.alert_storage: the stored alert dicts
    websockets,      \* the WebSocket handlers started so far, each with its user
    manager_active_connections, \* manager.active_connections: user id -> WebSocket
    manager_user_data,          \* manager.user_data: user id -> session dict
    active_connections,         \* main.py's module-level active_connections
    sent,            \* the messages sent over WebSockets, in order
    uuids            \* how many times uuid.uuid4() has been called

vars == <<red_zones, enhanced_ready, n_added, op, arg, ret, old_zones,
          imu_data, fall_alert, now, user_data_buffer, n_batches,
          tasks, running, last_writer,
          alert_storage, websockets, manager_active_connections, manager_user_data,
          active_connections, sent, uuids>>

zone_vars == <<red_zones, enhanced_ready, n_added, op, arg, ret, old_zones>>
fall_vars == <<imu_data, fall_alert>>
rule_vars == <<now, user_data_buffer, n_batches>>
task_vars == <<tasks, running, last_writer>>
alert_vars == <<alert_storage, websockets, manager_active_connections,
                manager_user_data, active_connections, sent, uuids>>

-----------------------------------------------------------------------------
(* Bounds *)

\* add_zone calls in a run of Spec
MaxAdds == 2
\* add_zone calls in a run of VerdictSpec
MaxVerdictAdds == 1
\* the longest phases and padding of the IMU batches fed to the fall detector
MaxFreefall == 10
MaxImpact == 5
MaxStill == 15
MaxPad == 2
\* sensor batches processed in a run of RuleSpec
MaxBatches == 2
\* sensor batches processed in a run of BurstSpec, and how many batches short
\* of MAX_DATA_BUFFER_SIZE its buffers may start
MaxBurstBatches == 1
MaxBurstSlack == 10
\* process_data calls in flight in a run of PipelineSpec
MaxTasks == 2
\* WebSockets opened, and alerts and safety events created, in a run of
\* AlertSpec
MaxSockets == 2
MaxAlerts == 2
\* cells a side of the grid of query points laid over a seeded zone
GridCells == 6

-----------------------------------------------------------------------------
(* Small helpers *)

Min2(a, b) == IF a <= b THEN a ELSE b
Max2(a, b) == IF a >= b THEN a ELSE b
Abs(a) == IF a >= 0 THEN a ELSE -a

\* the items of a list
Range(list) == { list[k] : k \in DOMAIN list }

\* dict.get(key, default) on a record used as a Python dict
Get(d, key, default) == IF key \in DOMAIN d THEN d[key] ELSE default

\* a {'lat': .., 'lng': ..} dict
Pt(lat, lng) == [lat |-> lat, lng |-> lng]

\* whether an item of a coordinates list can be read as p['lat'], p['lng']
HasLatLng(p) == {"lat", "lng"} \subseteq DOMAIN p

-----------------------------------------------------------------------------
(* The seeded zones *)

SeedZones ==
    << [id |-> 1, name |-> "Military Zone Alpha", type |-> "Military",
        coordinates |-> << Pt(26912400, 75787300), Pt(26915000, 75790000),
                           Pt(26910000, 75795000), Pt(26908000, 75792000) >>,
        risk_level |-> 5],
       [id |-> 2, name |-> "Wildlife Sanctuary - Restricted Area", type |-> "Wildlife",
        coordinates |-> << Pt(26920000, 75800000), Pt(26925000, 75805000),
                           Pt(26920000, 75810000), Pt(26915000, 75805000) >>,
        risk_level |-> 3],
       [id |-> 3, name |-> "Border Security Zone", type |-> "Border",
        coordinates |-> << Pt(28000000, 70500000), Pt(28020000, 70520000),
                           Pt(28010000, 70540000), Pt(27990000, 70520000) >>,
        risk_level |-> 4],
       [id |-> 4, name |-> "Mining Area - Dangerous", type |-> "Industrial",
        coordinates |-> << Pt(25500000, 74500000), Pt(25510000, 74510000),
                           Pt(25505000, 74520000), Pt(25495000, 74510000) >>,
        risk_level |-> 3] >>

-----------------------------------------------------------------------------
(* Ray casting *)

\* the loop body counting an edge also for a point level with its lower end
EdgeTogglesLowerEndIncluded(x, y, p1, p2) ==
    LET dy == p2.lat - p1.lat
        dx == p2.lng - p1.lng
    IN  /\ y >= Min2(p1.lat, p2.lat)
        /\ y <= Max2(p1.lat, p2.lat)
        /\ x <= Max2(p1.lng, p2.lng)
        /\ dy # 0
        /\ \/ p1.lng = p2.lng
           \/ x <= Min2(p1.lng, p2.lng)
           \/ IF dy > 0 THEN (x - p1.lng) * dy <= (y - p1.lat) * dx
                         ELSE (x - p1.lng) * dy >= (y - p1.lat) * dx

\* One edge p1 -> p2 of the loop body: whether it toggles `inside`.
\* xinters = (y - p1y) * (p2x - p1x) / (p2y - p1y) + p1x is only computed when
\* p1y # p2y, which the two tests on y imply.  x <= xinters is decided in exact
\* arithmetic by cross-multiplying with the sign of (p2y - p1y); when x is not
\* to the right of both end points it is true without multiplying, xinters
\* lying between p1x and p2x.
EdgeToggles(x, y, p1, p2) ==
    LET p1x == p1.lng
        p1y == p1.lat
        p2x == p2.lng
        p2y == p2.lat
        dy  == p2y - p1y
        dx  == p2x - p1x
        x_le_xinters ==
            IF x <= Min2(p1x, p2x) THEN TRUE
            ELSE IF dy > 0 THEN (x - p1x) * dy <= (y - p1y) * dx
                 ELSE (x - p1x) * dy >= (y - p1y) * dx
    IN  /\ y > Min2(p1y, p2y)
        /\ y <= Max2(p1y, p2y)
        /\ x <= Max2(p1x, p2x)
        /\ (p1x = p2x \/ x_le_xinters)

\* the for loop, i = 1 .. n, p1 = polygon[i-1], p2 = polygon[i % n] (0-based)
RECURSIVE RayLoop(_, _, _, _, _)
RayLoop(x, y, polygon, i, inside) ==
    LET n == Len(polygon) IN
    IF i > n THEN inside
    ELSE RayLoop(x, y, polygon, i + 1,
                 IF EdgeToggles(x, y, polygon[i], polygon[(i % n) + 1])
                 THEN ~inside ELSE inside)

\* _point_in_polygon_ray_casting: raises when polygon[0] does not exist or an
\* item has no 'lat'/'lng' (every item is read by the loop), else the parity.
point_in_polygon_ray_casting(lat, lng, polygon) ==
    IF Len(polygon) = 0 \/ \E i \in 1..Len(polygon) : ~HasLatLng(polygon[i])
    THEN [raised |-> TRUE, value |-> FALSE]
    ELSE [raised |-> FALSE, value |-> RayLoop(lng, lat, polygon, 1, FALSE)]

-----------------------------------------------------------------------------
(* Breach queries *)

\* the for loop of check_point_in_polygon from zone k on: the first zone whose
\* test raises aborts the loop, the first zone that contains the point ends it
RECURSIVE CheckLoop(_, _, _, _)
CheckLoop(zones, lat, lng, k) ==
    IF k > Len(zones) THEN [raised |-> FALSE, value |-> FALSE]
    ELSE LET t == point_in_polygon_ray_casting(lat, lng, zones[k].coordinates) IN
         IF t.raised THEN [raised |-> TRUE, value |-> FALSE]
         ELSE IF t.value THEN [raised |-> FALSE, value |-> TRUE]
         ELSE CheckLoop(zones, lat, lng, k + 1)

\* check_point_in_polygon with an except branch that reports a breach
check_point_in_polygon_fail_closed(zones, lat, lng) ==
    LET r == CheckLoop(zones, lat, lng, 1) IN
    IF r.raised THEN TRUE ELSE r.value

\* check_point_in_polygon: any exception of the loop is caught and gives False
check_point_in_polygon(zones, lat, lng) ==
    LET r == CheckLoop(zones, lat, lng, 1) IN
    IF r.raised THEN FALSE ELSE r.value

\* get_zone_info returned None
NoneInfo ==
    [is_none |-> TRUE, zone_id |-> 0, zone_name |-> "", zone_type |-> "",
     risk_level |-> 0, breach_detected |-> FALSE]

\* the 'Safe Area' dict (zone_id None is written 0: no zone has id 0)
SafeAreaInfo ==
    [is_none |-> FALSE, zone_id |-> 0, zone_name |-> "Safe Area", zone_type |-> "Safe",
     risk_level |-> 0, breach_detected |-> FALSE]

BreachInfo(zone) ==
    [is_none |-> FALSE, zone_id |-> zone.id, zone_name |-> zone.name,
     zone_type |-> zone.type, risk_level |-> zone.risk_level,
     breach_detected |-> TRUE]

\* the for loop of get_zone_info from zone k on; index 0 = no zone matched
RECURSIVE InfoLoop(_, _, _, _)
InfoLoop(zones, lat, lng, k) ==
    IF k > Len(zones) THEN [raised |-> FALSE, index |-> 0]
    ELSE LET t == point_in_polygon_ray_casting(lat, lng, zones[k].coordinates) IN
         IF t.raised THEN [raised |-> TRUE, index |-> 0]
         ELSE IF t.value THEN [raised |-> FALSE, index |-> k]
         ELSE InfoLoop(zones, lat, lng, k + 1)

\* get_zone_info: the first match, 'Safe Area' without a match, None on an exception
get_zone_info(zones, lat, lng) ==
    LET r == InfoLoop(zones, lat, lng, 1) IN
    IF r.raised THEN NoneInfo
    ELSE IF r.index > 0 THEN BreachInfo(zones[r.index])
    ELSE SafeAreaInfo

-----------------------------------------------------------------------------
(* Proximity queries *)

RECURSIVE SumKey(_, _, _)
SumKey(polygon, key, i) ==
    IF i > Len(polygon) THEN 0 ELSE polygon[i][key] + SumKey(polygon, key, i + 1)

\* _calculate_polygon_center: the mean of the vertices ({0,0} for an empty
\* list); reading p['lat'] / p['lng'] of a malformed item raises
calculate_polygon_center(polygon) ==
    IF Len(polygon) = 0 THEN [raised |-> FALSE, value |-> Pt(0, 0)]
    ELSE IF \E i \in 1..Len(polygon) : ~HasLatLng(polygon[i])
    THEN [raised |-> TRUE, value |-> Pt(0, 0)]
    ELSE [raised |-> FALSE,
          value |-> Pt(SumKey(polygon, "lat", 1) \div Len(polygon),
                       SumKey(polygon, "lng", 1) \div Len(polygon))]

\* _calculate_distance.  The Haversine great-circle distance is replaced by
\* the local flat approximation (1e-4 deg of latitude = 11.1 m, of longitude
\* = 9.9 m near latitude 27), and the result is the SQUARED distance in
\* square metres: it is only ever compared and ordered.  Points more than
\* 30 km apart along an axis all get the same, largest value.
calculate_distance(lat1, lng1, lat2, lng2) ==
    LET dlat == ((Abs(lat2 - lat1) \div 100) * 111) \div 10
        dlng == ((Abs(lng2 - lng1) \div 100) * 99) \div 10
    IN  IF dlat > 30000 \/ dlng > 30000 THEN 1800000000
        ELSE dlat * dlat + dlng * dlng

\* radius_km as a squared distance in square metres
RadiusSq(km) == (km * 1000) * (km * 1000)

\* list.sort(key = distance_km): stable insertion of e into a sorted list
RECURSIVE InsertSorted(_, _)
InsertSorted(sorted, e) ==
    IF sorted = << >> THEN << e >>
    ELSE IF Head(sorted).distance_sq <= e.distance_sq
         THEN << Head(sorted) >> \o InsertSorted(Tail(sorted), e)
         ELSE << e >> \o sorted

RECURSIVE SortByDistance(_)
SortByDistance(list) ==
    IF list = << >> THEN << >>
    ELSE InsertSorted(SortByDistance(SubSeq(list, 1, Len(list) - 1)), list[Len(list)])

\* the for loop of get_nearby_zones from zone k on, nearby_zones = acc
RECURSIVE NearbyLoop(_, _, _, _, _, _)
NearbyLoop(zones, lat, lng, radius_sq, k, acc) ==
    IF k > Len(zones) THEN [raised |-> FALSE, value |-> acc]
    ELSE LET c == calculate_polygon_center(zones[k].coordinates) IN
         IF c.raised THEN [raised |-> TRUE, value |-> << >>]
         ELSE LET d == calculate_distance(lat, lng, c.value.lat, c.value.lng) IN
              NearbyLoop(zones, lat, lng, radius_sq, k + 1,
                         IF d <= radius_sq
                         THEN Append(acc, [zone_id |-> zones[k].id,
                                           zone_name |-> zones[k].name,
                                           zone_type |-> zones[k].type,
                                           risk_level |-> zones[k].risk_level,
                                           distance_sq |-> d])
                         ELSE acc)

\* get_nearby_zones: sorted by distance; the empty list on any exception
\* (the entries' copy of the zone's coordinates is left out)
get_nearby_zones(zones, lat, lng, radius_km) ==
    LET r == NearbyLoop(zones, lat, lng, RadiusSq(radius_km), 1, << >>) IN
    IF r.raised THEN << >> ELSE SortByDistance(r.value)

-----------------------------------------------------------------------------
(* Zone store updates *)

\* the new_zone dict add_zone builds from zone_data
NewZone(zones, zone_data) ==
    [id          |-> Len(zones) + 1,
     name        |-> Get(zone_data, "name", "New Zone"),
     type        |-> Get(zone_data, "type", "Custom"),
     coordinates |-> Get(zone_data, "coordinates", << >>),
     risk_level  |-> Get(zone_data, "risk_level", 3)]

\* add_zone appending before it validates the coordinates
add_zone_append_first(zones, zone_data) ==
    LET new_zone == NewZone(zones, zone_data) IN
    [ok |-> Len(new_zone.coordinates) >= 3, zones |-> Append(zones, new_zone)]

\* add_zone: [ok, zones]: False and the list untouched with fewer than 3
\* coordinates, else the new zone appended
add_zone(zones, zone_data) ==
    LET new_zone == NewZone(zones, zone_data) IN
    IF Len(new_zone.coordinates) < 3
    THEN [ok |-> FALSE, zones |-> zones]
    ELSE [ok |-> TRUE, zones |-> Append(zones, new_zone)]

\* remove_zone dropping only the first zone of that id (list.remove style)
RECURSIVE DropFirst(_, _)
DropFirst(zones, zone_id) ==
    IF zones = << >> THEN << >>
    ELSE IF Head(zones).id = zone_id THEN Tail(zones)
    ELSE << Head(zones) >> \o DropFirst(Tail(zones), zone_id)

remove_zone_first_only(zones, zone_id) ==
    [ok |-> TRUE, zones |-> DropFirst(zones, zone_id)]

\* remove_zone: [ok, zones]: the list without the zones of that id, always True
remove_zone(zones, zone_id) ==
    [ok |-> TRUE, zones |-> SelectSeq(zones, LAMBDA zone : zone.id # zone_id)]

-----------------------------------------------------------------------------
(* Location verdicts *)

\* GeoUtils.validate_coordinates, in micro-degrees (no zone-store code calls it)
validate_coordinates(lat, lng) ==
    /\ -90000000 <= lat /\ lat <= 90000000
    /\ -180000000 <= lng /\ lng <= 180000000

\* validate_location: the result dict.  zone_info is NoneInfo while the key
\* holds None.  Its try block cannot raise (get_zone_info and get_nearby_zones
\* catch everything), so its except branch has no counterpart here.
validate_location(zones, lat, lng) ==
    LET zone_info    == get_zone_info(zones, lat, lng)
        breached     == ~zone_info.is_none /\ zone_info.breach_detected
        nearby_zones == get_nearby_zones(zones, lat, lng, 2)
        close        == nearby_zones # << >> /\ nearby_zones[1].distance_sq < RadiusSq(1)
    IN  [coordinates     |-> Pt(lat, lng),
         is_safe         |-> ~breached,
         risk_level      |-> IF breached THEN zone_info.risk_level ELSE 0,
         zone_info       |-> IF breached THEN zone_info ELSE NoneInfo,
         nearby_zones    |-> nearby_zones,
         warnings        |->
             (IF breached THEN << <<"You are in a restricted zone", zone_info.zone_type>> >>
              ELSE << >>)
             \o (IF close THEN << <<"Warning: zone is near", nearby_zones[1].zone_name>> >>
                 ELSE << >>),
         recommendations |->
             (IF breached THEN << "Exit the area immediately and contact authorities" >>
              ELSE << >>)
             \o (IF close THEN << "Avoid moving towards the restricted area" >>
                 ELSE << >>)]

\* the first eight items of a list
FirstEight(list) == SubSeq(list, 1, Min2(8, Len(list)))

\* list(set(list)): the items without duplicates (in first-occurrence order;
\* Python leaves the order unspecified)
RECURSIVE Dedup(_)
Dedup(list) ==
    IF list = << >> THEN << >>
    ELSE LET rest == Dedup(SubSeq(list, 1, Len(list) - 1))
             last == list[Len(list)]
         IN  IF \E i \in 1..Len(rest) : rest[i] = last THEN rest ELSE Append(rest, last)

\* check_location_with_crime_analysis.  ready: the enhanced system exists and
\* is ready; crime: what calculate_area_risk_score does for this call, either
\* raising or returning the dict crime.value.
check_location_with_crime_analysis(zones, lat, lng, ready, crime) ==
    LET basic_result == validate_location(zones, lat, lng) IN
    IF ~ready
    THEN ("enhanced_analysis" :> FALSE)
         @@ ("note" :> "Crime statistics not available, using rule-based detection only")
         @@ basic_result
    ELSE IF crime.raised
    THEN ("enhanced_analysis" :> FALSE) @@ ("crime_analysis_error" :> TRUE) @@ basic_result
    ELSE
      LET crime_analysis  == crime.value
          rule_based_risk == basic_result.risk_level
          crime_risk      == Get(crime_analysis, "overall_risk_score", 50)
          in_zone         == rule_based_risk > 0
          all_warnings    == basic_result.warnings \o Get(crime_analysis, "alerts", << >>)
          all_recommendations ==
              basic_result.recommendations \o Get(crime_analysis, "recommendations", << >>)
      IN  [coordinates         |-> basic_result.coordinates,
           is_safe             |-> IF in_zone THEN FALSE ELSE crime_risk <= 40,
           risk_level          |-> basic_result.risk_level,
           zone_info           |-> basic_result.zone_info,
           nearby_zones        |-> basic_result.nearby_zones,
           warnings            |-> Dedup(all_warnings),
           recommendations     |-> FirstEight(Dedup(all_recommendations)),
           enhanced_analysis   |-> TRUE,
           crime_risk_score    |-> crime_risk,
           crime_risk_level    |-> Get(crime_analysis, "risk_level", "medium"),
           combined_risk_level |-> IF in_zone THEN Max2(rule_based_risk * 10, crime_risk)
                                   ELSE crime_risk]

\* run_comprehensive_safety_analysis.  detector: what
\* red_zone_detector.get_detailed_risk_analysis does for this call (raising,
\* or returning the dict detector.value); the except branch returns the
\* default verdict.
run_comprehensive_safety_analysis(zones, lat, lng, ready, detector, crime) ==
    IF detector.raised
    THEN [overall_risk_score |-> 50, risk_level |-> "medium", is_safe |-> TRUE,
          location |-> Pt(lat, lng), error |-> TRUE]
    ELSE
      LET red_zone_analysis == detector.value
          fallback_analysis ==
              check_location_with_crime_analysis(zones, lat, lng, ready, crime)
      IN  [overall_risk_score |-> Get(red_zone_analysis, "overall_risk_score", 50),
           risk_level         |-> Get(red_zone_analysis, "risk_level", "medium"),
           is_safe            |-> Get(red_zone_analysis, "overall_risk_score", 50) <= 40,
           location           |-> Pt(lat, lng),
           is_red_zone        |-> Get(red_zone_analysis, "overall_risk_score", 0) > 70,
           enhanced_analysis  |-> fallback_analysis.enhanced_analysis,
           error              |-> FALSE]

-----------------------------------------------------------------------------
(* Rule-based fall detection *)

\* detection_thresholds['fall']
freefall_g_max == 2
impact_g_threshold == 15
stillness_threshold == 2
\* the confidence of a rule-based fall alert, in hundredths
fall_confidence == 75

Sq(a) == a * a

\* whether a sample can be read as sample['acceleration_x'], .. _y, .. _z
HasAcceleration(sample) ==
    {"acceleration_x", "acceleration_y", "acceleration_z"} \subseteq DOMAIN sample

\* the square of the magnitude sqrt(x^2 + y^2 + z^2) of one sample
MagnitudeSq(sample) ==
    Sq(sample.acceleration_x) + Sq(sample.acceleration_y) + Sq(sample.acceleration_z)

\* magnitudes[i] for the 0-based index i, squared
MagSqAt(imu, i) == MagnitudeSq(imu[i + 1])

\* all(g < limit for g in magnitudes[from:to]) with Python's slice clipping
AllBelow(imu, from, to, limit) ==
    \A j \in from .. (Min2(to, Len(imu)) - 1) : MagSqAt(imu, j) < Sq(limit)

\* any(g > limit for g in magnitudes[from:to])
AnyAbove(imu, from, to, limit) ==
    \E j \in from .. (Min2(to, Len(imu)) - 1) : MagSqAt(imu, j) > Sq(limit)

\* the body of the scan loop at offset i: the three nested ifs
FallPatternAt(imu, i) ==
    /\ AllBelow(imu, i, i + 3, freefall_g_max)
    /\ AnyAbove(imu, i + 3, i + 5, impact_g_threshold)
    /\ i + 10 < Len(imu)
    /\ AllBelow(imu, i + 5, i + 10, stillness_threshold)

\* for i in range(len(magnitudes) - 5): ... break at the first match
RECURSIVE FallScan(_, _)
FallScan(imu, i) ==
    IF i >= Len(imu) - 5 THEN FALSE
    ELSE IF FallPatternAt(imu, i) THEN TRUE
    ELSE FallScan(imu, i + 1)

RECURSIVE MaxMagSq(_, _)
MaxMagSq(imu, k) ==
    IF k > Len(imu) THEN 0 ELSE Max2(MagnitudeSq(imu[k]), MaxMagSq(imu, k + 1))

RECURSIVE MinMagSq(_, _)
MinMagSq(imu, k) ==
    IF k = Len(imu) THEN MagnitudeSq(imu[k])
    ELSE Min2(MagnitudeSq(imu[k]), MinMagSq(imu, k + 1))

\* _detect_fall_rule_based: << >> for None, else the one alert dict.  Fewer
\* than 10 samples give None before anything is read; a sample without the
\* acceleration keys makes the magnitude loop raise, which is caught and
\* gives None.  details carry the squares of max(magnitudes), min(magnitudes).
detect_fall_rule_based(user_id, imu) ==
    IF Len(imu) < 10 THEN << >>
    ELSE IF \E k \in 1..Len(imu) : ~HasAcceleration(imu[k]) THEN << >>
    ELSE IF FallScan(imu, 0)
    THEN << [user_id          |-> user_id,
             alert_type       |-> "fall_detected",
             priority         |-> "critical",
             confidence       |-> fall_confidence,
             message          |-> "Fall detected using rule-based system",
             detection_method |-> "rule_based",
             details          |-> [max_impact_g_sq  |-> MaxMagSq(imu, 1),
                                   min_freefall_g_sq |-> MinMagSq(imu, 1),
                                   pattern_detected |-> "freefall_impact_stillness"]] >>
    ELSE << >>

-----------------------------------------------------------------------------
(* Per-user buffers *)

\* sensor_data.get(key) is truthy: the key is there and its list or dict is
\* not empty
Truthy(d, key) == key \in DOMAIN d /\ DOMAIN d[key] # {}

\* list[-n:]
LastN(list, n) == SubSeq(list, Max2(1, Len(list) - n + 1), Len(list))

\* timedelta(hours=24), the age cutoff of data_history, in seconds
retention_seconds == 86400
\* buffer['locations'][-100:]
max_locations == 100
\* Config.MAX_DATA_BUFFER_SIZE (no code reads it)
MAX_DATA_BUFFER_SIZE == 1000

\* the buffer _update_user_buffer creates for a user it has not seen
NewBuffer(t) == [data_history |-> << >>, locations |-> << >>, last_activity |-> t]

\* _update_user_buffer at time t: the batch is appended to data_history, which
\* is then filtered by age; a batch with a location is appended to locations,
\* which is then cut to its last 100 entries
update_user_buffer(buffers, t, user_id, sensor_data) ==
    LET buffer == IF user_id \in DOMAIN buffers THEN buffers[user_id] ELSE NewBuffer(t)
        appended == Append(buffer.data_history,
                           [timestamp |-> t, sensor_data |-> sensor_data])
        cutoff_time == t - retention_seconds
        data_history == SelectSeq(appended, LAMBDA item : item.timestamp > cutoff_time)
        locations ==
            IF Truthy(sensor_data, "location")
            THEN LastN(Append(buffer.locations,
                              [timestamp |-> t, location |-> sensor_data.location]),
                       max_locations)
            ELSE buffer.locations
    IN  (user_id :> [data_history |-> data_history, locations |-> locations,
                     last_activity |-> t])
        @@ buffers

\* _get_recent_user_data: the sensor_data of the entries younger than `seconds`
get_recent_user_data(buffers, t, user_id, seconds) ==
    IF user_id \notin DOMAIN buffers THEN << >>
    ELSE LET recent == SelectSeq(buffers[user_id].data_history,
                                 LAMBDA item : item.timestamp > t - seconds)
         IN  [k \in 1..Len(recent) |-> recent[k].sensor_data]

\* _get_user_history reading one buffer shared by all users
get_user_history_shared(buffers, user_id) ==
    IF "u1" \in DOMAIN buffers THEN buffers["u1"]
    ELSE [data_history |-> << >>, locations |-> << >>]

\* _get_user_history
get_user_history(buffers, user_id) ==
    IF user_id \in DOMAIN buffers THEN buffers[user_id]
    ELSE [data_history |-> << >>, locations |-> << >>]

-----------------------------------------------------------------------------
(* Rule-based crash detection *)

\* detection_thresholds['crash']; the speed in km/h, the deceleration in
\* m/s^2, the magnitude as for the fall detector
min_vehicle_speed == 25
deceleration_threshold == -8
crash_impact_g_threshold == 20
\* the confidence of a rule-based crash alert, in hundredths
crash_confidence == 80

\* data.get('location', {}).get('speed', 0) for each of the entries
SpeedsOf(entries) ==
    [k \in 1..Len(entries) |-> Get(Get(entries[k], "location", << >>), "speed", 0)]

\* max(list) for a list that is not empty, from item k on
RECURSIVE MaxOf(_, _)
MaxOf(list, k) ==
    IF k >= Len(list) THEN list[Len(list)] ELSE Max2(list[k], MaxOf(list, k + 1))

\* deceleration = speed_change / time_diff * 3.6 with time_diff = 5.0, in
\* hundredths: speed_change * 0.72 * 100
crash_deceleration(speed_change) == speed_change * 72

\* the vehicle-context test without a speed limit
in_vehicle_context_any_speed(speeds) == MaxOf(speeds, 1) >= 0

\* not (max_recent_speed < min_vehicle_speed)
in_vehicle_context(speeds) == MaxOf(speeds, 1) >= min_vehicle_speed

\* _detect_crash_rule_based: << >> for None, else the one alert dict.  A
\* sample of imu_data[-10:] without the acceleration keys makes the loop
\* raise, which is caught and gives None.
detect_crash_rule_based(buffers, t, user_id, sensor_data) ==
    LET recent_data == get_recent_user_data(buffers, t, user_id, 30) IN
    IF Len(recent_data) < 5 THEN << >>
    ELSE
      LET speeds == SpeedsOf(LastN(recent_data, 5))
          speed_change == speeds[Len(speeds)] - speeds[1]
          deceleration == crash_deceleration(speed_change)
          samples == LastN(Get(sensor_data, "imu_data", << >>), 10)
      IN  IF ~in_vehicle_context(speeds) THEN << >>
          ELSE IF ~(deceleration < deceleration_threshold * 100) THEN << >>
          ELSE IF \E k \in 1..Len(samples) : ~HasAcceleration(samples[k]) THEN << >>
          ELSE IF MaxMagSq(samples, 1) > Sq(crash_impact_g_threshold)
          THEN << [user_id          |-> user_id,
                   alert_type       |-> "crash_detected",
                   priority         |-> "critical",
                   confidence       |-> crash_confidence,
                   message          |-> "Vehicle crash detected using rule-based system",
                   detection_method |-> "rule_based",
                   details          |-> [max_g_force_sq |-> MaxMagSq(samples, 1),
                                         deceleration   |-> deceleration,
                                         speed_before   |-> speeds[1],
                                         speed_after    |-> speeds[Len(speeds)]]] >>
          ELSE << >>

-----------------------------------------------------------------------------
(* Rule-based distress detection *)

\* detection_thresholds['distress']['stationary_duration'], in hours
stationary_duration == 4
\* the confidence increments of the four indicators and the cap, in hundredths
inactivity_increment == 30
erratic_increment == 20
unusual_location_increment == 30
\* the signal-loss increment alone exceeding the 0.5 of the trigger
signal_loss_increment_above_trigger == 3 * 20
signal_loss_increment == 20
distress_confidence_cap == 90

\* whether a location dict can be read as l['latitude'], l['longitude']
HasLatitudeLongitude(l) == {"latitude", "longitude"} \subseteq DOMAIN l

\* RuleBasedSystemFallback._calculate_distance: the Haversine distance, here
\* the same flat approximation as for the zone store, as a squared distance in
\* square metres
rule_calculate_distance(lat1, lng1, lat2, lng2) ==
    calculate_distance(lat1, lng1, lat2, lng2)

\* a distance in km as a squared distance in square metres, for km given in
\* tenths (0.1 km = 1)
TenthsKmSq(tenths) == (tenths * 100) * (tenths * 100)

\* _check_prolonged_inactivity: the first and the last of the last 20
\* locations are less than 100 m apart and more than threshold_hours apart in
\* time; False when reading a location raises
check_prolonged_inactivity(buffers, user_id, threshold_hours) ==
    LET history == get_user_history(buffers, user_id)
        recent_locations == LastN(history.locations, 20)
    IN  IF Len(history.locations) = 0 THEN FALSE
        ELSE IF Len(recent_locations) < 2 THEN FALSE
        ELSE LET first == recent_locations[1]
                 last  == recent_locations[Len(recent_locations)]
             IN  IF ~HasLatitudeLongitude(first.location)
                    \/ ~HasLatitudeLongitude(last.location)
                 THEN FALSE
                 ELSE /\ rule_calculate_distance(
                             first.location.latitude, first.location.longitude,
                             last.location.latitude, last.location.longitude)
                           < TenthsKmSq(1)
                      /\ last.timestamp - first.timestamp > threshold_hours * 3600

\* _calculate_bearing as a direction: the (east, north) components of the
\* step from location1 to location2 in the flat approximation, scaled so that
\* the larger one is 100.  Two identical locations give bearing 0 (atan2(0, 0)
\* is 0), which is north.
calculate_bearing(location1, location2) ==
    LET east  == ((location2.longitude - location1.longitude) \div 100) * 99
        north == ((location2.latitude - location1.latitude) \div 100) * 111
        m     == Max2(Abs(east), Abs(north))
    IN  IF m = 0 THEN [east |-> 0, north |-> 100]
        ELSE [east |-> (east * 100) \div m, north |-> (north * 100) \div m]

\* bearing_diff > 45 after folding into [0, 180]: the angle between the two
\* directions exceeds 45 degrees, i.e. its cosine is below 1/sqrt(2)
BearingDiffAbove45(b1, b2) ==
    LET dot == b1.east * b2.east + b1.north * b2.north IN
    \/ dot <= 0
    \/ 2 * dot * dot < (Sq(b1.east) + Sq(b1.north)) * (Sq(b2.east) + Sq(b2.north))

\* _check_erratic_movement: among the last 10 locations (at least 5), more
\* than 60% as many triples turn by more than 45 degrees as there are
\* locations; False when reading a location raises
check_erratic_movement(buffers, user_id) ==
    LET locations == LastN(get_user_history(buffers, user_id).locations, 10)
        direction_changes ==
            Cardinality({ i \in 3..Len(locations) :
                BearingDiffAbove45(
                    calculate_bearing(locations[i-2].location, locations[i-1].location),
                    calculate_bearing(locations[i-1].location, locations[i].location)) })
    IN  IF Len(locations) < 5 THEN FALSE
        ELSE IF \E i \in 1..Len(locations) : ~HasLatitudeLongitude(locations[i].location)
        THEN FALSE
        ELSE direction_changes * 10 > Len(locations) * 6

\* sum(values) / len(values), computed around the first value
\* (the sum of values[lo..hi] is split in halves to keep the evaluation shallow)
RECURSIVE SumOffsets(_, _, _, _)
SumOffsets(values, base, lo, hi) ==
    IF lo > hi THEN 0
    ELSE IF lo = hi THEN values[lo] - base
    ELSE LET mid == (lo + hi) \div 2
         IN  SumOffsets(values, base, lo, mid) + SumOffsets(values, base, mid + 1, hi)

MeanOf(values) ==
    values[1] + SumOffsets(values, values[1], 1, Len(values)) \div Len(values)

\* _check_unusual_location: with at least 10 buffered locations, the current
\* one is more than 10 km from their mean; False when reading a location raises
check_unusual_location(buffers, user_id, current_location) ==
    LET history == get_user_history(buffers, user_id)
        locations == [k \in 1..Len(history.locations) |-> history.locations[k].location]
    IN  IF Len(locations) < 10 THEN FALSE
        ELSE IF \/ \E k \in 1..Len(locations) : ~HasLatitudeLongitude(locations[k])
                \/ ~HasLatitudeLongitude(current_location)
        THEN FALSE
        ELSE LET avg_lat == MeanOf([k \in 1..Len(locations) |-> locations[k].latitude])
                 avg_lng == MeanOf([k \in 1..Len(locations) |-> locations[k].longitude])
             IN  rule_calculate_distance(current_location.latitude,
                                         current_location.longitude, avg_lat, avg_lng)
                   > TenthsKmSq(100)

\* _check_signal_loss_pattern: with at least 5 buffered batches, two
\* consecutive ones of the last 10 are more than 1800 seconds apart
check_signal_loss_pattern(buffers, user_id) ==
    LET history == get_user_history(buffers, user_id)
        recent_data == LastN(history.data_history, 10)
    IN  IF Len(history.data_history) < 5 THEN FALSE
        ELSE \E i \in 2..Len(recent_data) :
                recent_data[i].timestamp - recent_data[i-1].timestamp > 1800

\* the indicator names appended and the confidence added, in the code's order
DistressIndicators(buffers, user_id, sensor_data) ==
    (IF check_prolonged_inactivity(buffers, user_id, stationary_duration)
     THEN << [name |-> "prolonged_inactivity", increment |-> inactivity_increment] >>
     ELSE << >>)
    \o (IF check_erratic_movement(buffers, user_id)
        THEN << [name |-> "erratic_movement", increment |-> erratic_increment] >>
        ELSE << >>)
    \o (IF Truthy(sensor_data, "location")
           /\ check_unusual_location(buffers, user_id, sensor_data.location)
        THEN << [name |-> "unusual_location", increment |-> unusual_location_increment] >>
        ELSE << >>)
    \o (IF check_signal_loss_pattern(buffers, user_id)
        THEN << [name |-> "signal_loss_pattern", increment |-> signal_loss_increment] >>
        ELSE << >>)

RECURSIVE SumIncrements(_, _)
SumIncrements(found, k) ==
    IF k > Len(found) THEN 0 ELSE found[k].increment + SumIncrements(found, k + 1)

\* the trigger test firing on a single indicator
distress_triggers_on_any(n_indicators, confidence) == n_indicators >= 1

\* len(distress_indicators) >= 2 or confidence > 0.5
distress_triggers(n_indicators, confidence) == n_indicators >= 2 \/ confidence > 50

\* _detect_distress_rule_based: << >> for None, else the one alert dict
detect_distress_rule_based(buffers, user_id, sensor_data) ==
    LET found == DistressIndicators(buffers, user_id, sensor_data)
        distress_indicators == [k \in 1..Len(found) |-> found[k].name]
        confidence == SumIncrements(found, 1)
    IN  IF distress_triggers(Len(distress_indicators), confidence)
        THEN << [user_id          |-> user_id,
                 alert_type       |-> "distress_detected",
                 priority         |-> "medium",
                 confidence       |-> Min2(confidence, distress_confidence_cap),
                 message          |-> << "Distress indicators detected",
                                         distress_indicators >>,
                 detection_method |-> "rule_based",
                 details          |-> [indicators |-> distress_indicators,
                                       requires_verification |-> TRUE]] >>
        ELSE << >>

-----------------------------------------------------------------------------
(* process_data *)

\* whether the magnitude loop of _detect_fall_rule_based raises: it reads every
\* sample once the batch has 10 of them
fall_detector_raises(imu) ==
    Len(imu) >= 10 /\ \E k \in 1..Len(imu) : ~HasAcceleration(imu[k])

\* process_data with a fall detector that does not catch its exception: the
\* outer except returns the empty list for the batch
process_data_fall_unguarded(buffers, t, user_id, sensor_data) ==
    LET updated == update_user_buffer(buffers, t, user_id, sensor_data)
        fall_alerts ==
            IF Truthy(sensor_data, "imu_data")
            THEN detect_fall_rule_based(user_id, sensor_data.imu_data)
            ELSE << >>
        crash_alerts ==
            IF Truthy(sensor_data, "imu_data") /\ Truthy(sensor_data, "location")
            THEN detect_crash_rule_based(updated, t, user_id, sensor_data)
            ELSE << >>
        distress_alerts == detect_distress_rule_based(updated, user_id, sensor_data)
    IN  IF Truthy(sensor_data, "imu_data") /\ fall_detector_raises(sensor_data.imu_data)
        THEN [buffers |-> updated, alerts |-> << >>]
        ELSE [buffers |-> updated,
              alerts  |-> fall_alerts \o crash_alerts \o distress_alerts]

\* process_data at time t: [buffers, alerts].  The buffer is updated, then
\* the fall detector runs on a batch with IMU samples, the crash detector on
\* a batch with IMU samples and a location, the distress detector always;
\* the alerts are concatenated in that order.  is_initialized holds (startup
\* has run initialize()), and nothing outside the detectors' own try blocks
\* raises for a dict batch, so the outer except has no counterpart here.
process_data(buffers, t, user_id, sensor_data) ==
    LET updated == update_user_buffer(buffers, t, user_id, sensor_data)
        fall_alerts ==
            IF Truthy(sensor_data, "imu_data")
            THEN detect_fall_rule_based(user_id, sensor_data.imu_data)
            ELSE << >>
        crash_alerts ==
            IF Truthy(sensor_data, "imu_data") /\ Truthy(sensor_data, "location")
            THEN detect_crash_rule_based(updated, t, user_id, sensor_data)
            ELSE << >>
        distress_alerts == detect_distress_rule_based(updated, user_id, sensor_data)
    IN  [buffers |-> updated,
         alerts  |-> fall_alerts \o crash_alerts \o distress_alerts]

-----------------------------------------------------------------------------
(* Inputs *)

\* a square around the seeded Military Zone Alpha: it contains that zone's
\* centroid and the point (26.9000, 75.7800)
OverlapSquare ==
    << Pt(26895000, 75775000), Pt(26895000, 75795000),
       Pt(26915000, 75795000), Pt(26915000, 75775000) >>

\* the zone_data dicts handed to add_zone
ZoneDataMenu ==
    << \* a well-formed zone overlapping a seeded one
       [name |-> "Overlap", type |-> "Custom", coordinates |-> OverlapSquare,
        risk_level |-> 2],
       \* two vertices only
       [name |-> "Line", type |-> "Custom",
        coordinates |-> << Pt(26895000, 75775000), Pt(26915000, 75795000) >>,
        risk_level |-> 4],
       \* no 'coordinates' key
       [name |-> "Empty"],
       \* three items, one of them without 'lng'; no 'risk_level' key
       [name |-> "Broken",
        coordinates |-> << Pt(26895000, 75775000), [lat |-> 26895000],
                           Pt(26915000, 75795000) >>],
       \* a well-formed polygon with risk_level 0; no 'name', no 'type'
       [coordinates |-> OverlapSquare, risk_level |-> 0] >>

\* the (lat, lng) pairs queried
Points ==
    { Pt(26911350, 75791075),    \* the centroid of seeded zone 1
      Pt(26920000, 75805000),    \* the centroid of seeded zone 2
      Pt(26900000, 75780000),    \* outside every seeded zone
      Pt(100000000, 0),          \* latitude 100: not a coordinate
      Pt(0, 200000000) }         \* longitude 200: not a coordinate

\* the arithmetic mean of a zone's vertices (exact for the seeded zones)
Centroid(zone) ==
    LET n == Len(zone.coordinates)
    IN  Pt(MeanOf([k \in 1..n |-> zone.coordinates[k].lat]),
           MeanOf([k \in 1..n |-> zone.coordinates[k].lng]))

\* the smallest and the largest of the values of a non-empty list
MinList(values) == CHOOSE v \in Range(values) : \A w \in Range(values) : v <= w
MaxList(values) == CHOOSE v \in Range(values) : \A w \in Range(values) : v >= w

\* a grid over the bounding box of a zone, GridCells cells a side, with one
\* more cell around it
GridOver(zone) ==
    LET n == Len(zone.coordinates)
        lats == [k \in 1..n |-> zone.coordinates[k].lat]
        lngs == [k \in 1..n |-> zone.coordinates[k].lng]
        lat_at(i) == MinList(lats) + (i * (MaxList(lats) - MinList(lats))) \div GridCells
        lng_at(j) == MinList(lngs) + (j * (MaxList(lngs) - MinList(lngs))) \div GridCells
    IN  { Pt(lat_at(i), lng_at(j)) : i, j \in (0 - 1)..(GridCells + 1) }

\* the points level with a vertex of the zone, one grid cell west and one
\* east of the zone's bounding box
LevelWithVertices(zone) ==
    LET n == Len(zone.coordinates)
        lngs == [k \in 1..n |-> zone.coordinates[k].lng]
        cell == (MaxList(lngs) - MinList(lngs)) \div GridCells
    IN  { Pt(zone.coordinates[k].lat, lng) :
            k \in 1..n, lng \in {MinList(lngs) - cell, MaxList(lngs) + cell} }

\* the (lat, lng) pairs queried on the seeded store: the centroids of the
\* seeded zones, (26.9000, 75.7800), and points in and around each zone
SeedPoints ==
    { Centroid(SeedZones[k]) : k \in 1..Len(SeedZones) }
    \cup { Pt(26900000, 75780000) }
    \cup UNION { GridOver(SeedZones[k]) : k \in 1..Len(SeedZones) }
    \cup UNION { LevelWithVertices(SeedZones[k]) : k \in 1..Len(SeedZones) }

\* what EnhancedRedZoneSystem.calculate_area_risk_score may do: raise, or
\* return a dict whose overall_risk_score lies in 0..10
CrimeOutcomes ==
    << [raised |-> TRUE, value |-> [risk_level |-> "medium"]],
       [raised |-> FALSE, value |-> [overall_risk_score |-> 20, risk_level |-> "low"]],
       [raised |-> FALSE, value |-> [overall_risk_score |-> 40, risk_level |-> "medium"]],
       [raised |-> FALSE,
        value |-> [overall_risk_score |-> 45, risk_level |-> "medium",
                   alerts |-> << "Elevated crime in this area" >>,
                   recommendations |-> << "Stay in groups" >>]],
       [raised |-> FALSE, value |-> [overall_risk_score |-> 100, risk_level |-> "critical"]],
       [raised |-> FALSE, value |-> [risk_level |-> "medium"]] >>

\* what RedZoneDetector.get_detailed_risk_analysis may do
DetectorOutcomes ==
    << [raised |-> TRUE, value |-> [risk_level |-> "medium"]],
       [raised |-> FALSE, value |-> [overall_risk_score |-> 20, risk_level |-> "low"]],
       [raised |-> FALSE, value |-> [overall_risk_score |-> 40, risk_level |-> "medium"]],
       [raised |-> FALSE, value |-> [overall_risk_score |-> 41, risk_level |-> "medium"]],
       [raised |-> FALSE, value |-> [overall_risk_score |-> 80, risk_level |-> "high"]],
       [raised |-> FALSE, value |-> [risk_level |-> "medium"]] >>

\* an IMU sample (the gyroscope values are not read by the detector)
Sample(x, y, z) == [acceleration_x |-> x, acceleration_y |-> y, acceleration_z |-> z]

\* n copies of sample s
Repeat(s, n) == [k \in 1..n |-> s]

\* samples of magnitude 1 (freefall), 25 (impact), 10 (at rest under gravity)
FreefallSample == Sample(0, 0, 1)
ImpactSample  == Sample(15, 0, 20)
RestSample    == Sample(0, 0, 10)

\* the IMU batches: `pre` samples at rest, a samples of freefall, b of
\* impact, c post-impact samples (at rest, or at magnitude 1), `post` samples
\* at rest
ImuBatches ==
    { Repeat(RestSample, pre) \o Repeat(FreefallSample, a) \o Repeat(ImpactSample, b)
        \o Repeat(still, c) \o Repeat(RestSample, post) :
      pre \in 0..MaxPad, a \in 0..MaxFreefall, b \in 0..MaxImpact, c \in 0..MaxStill,
      still \in {RestSample, FreefallSample}, post \in 0..MaxPad }
    \cup { Repeat(FreefallSample, 3) \o << ImpactSample, [acceleration_x |-> 0] >>
             \o Repeat(FreefallSample, 7) }

\* the ids handed to remove_zone: the first and the last seeded id (the last is
\* also the id add_zone hands out again after a removal) and an id no zone has
RemoveIds == {1, Len(SeedZones), Len(SeedZones) + MaxAdds + 1}

-----------------------------------------------------------------------------
(* The zone store and its callers as a state machine *)

\* the store after startup has run initialize()
Init ==
    /\ red_zones = SeedZones
    /\ enhanced_ready \in BOOLEAN
    /\ n_added = 0
    /\ op = "initialize"
    /\ arg = << >>
    /\ ret = TRUE
    /\ old_zones = << >>
    /\ imu_data = << >>
    /\ fall_alert = << >>
    /\ now = 0
    /\ user_data_buffer = << >>
    /\ n_batches = 0
    /\ tasks = << >>
    /\ running = 0
    /\ last_writer = << >>
    /\ alert_storage = << >>
    /\ websockets = << >>
    /\ manager_active_connections = << >>
    /\ manager_user_data = << >>
    /\ active_connections = << >>
    /\ sent = << >>
    /\ uuids = 0

Query(name, a, r) ==
    /\ op' = name
    /\ arg' = a
    /\ ret' = r
    /\ old_zones' = red_zones
    /\ UNCHANGED <<red_zones, enhanced_ready, n_added>>
    /\ UNCHANGED fall_vars
    /\ UNCHANGED rule_vars
    /\ UNCHANGED task_vars
    /\ UNCHANGED alert_vars

AddZone(zone_data, max_adds) ==
    /\ n_added < max_adds
    /\ LET r == add_zone(red_zones, zone_data) IN
       /\ red_zones' = r.zones
       /\ ret' = r.ok
    /\ n_added' = n_added + 1
    /\ op' = "add_zone"
    /\ arg' = zone_data
    /\ old_zones' = red_zones
    /\ UNCHANGED enhanced_ready
    /\ UNCHANGED fall_vars
    /\ UNCHANGED rule_vars
    /\ UNCHANGED task_vars
    /\ UNCHANGED alert_vars

RemoveZone(zone_id) ==
    /\ LET r == remove_zone(red_zones, zone_id) IN
       /\ red_zones' = r.zones
       /\ ret' = r.ok
    /\ op' = "remove_zone"
    /\ arg' = zone_id
    /\ old_zones' = red_zones
    /\ UNCHANGED <<enhanced_ready, n_added>>
    /\ UNCHANGED fall_vars
    /\ UNCHANGED rule_vars
    /\ UNCHANGED task_vars
    /\ UNCHANGED alert_vars

CheckPointInPolygon(p) ==
    Query("check_point_in_polygon", p, check_point_in_polygon(red_zones, p.lat, p.lng))

GetZoneInfo(p) ==
    Query("get_zone_info", p, get_zone_info(red_zones, p.lat, p.lng))

GetNearbyZones(p) ==
    Query("get_nearby_zones", p, get_nearby_zones(red_zones, p.lat, p.lng, 5))

ValidateLocation(p) ==
    Query("validate_location", p, validate_location(red_zones, p.lat, p.lng))

CheckLocationWithCrimeAnalysis(p, crime) ==
    Query("check_location_with_crime_analysis", p,
          check_location_with_crime_analysis(red_zones, p.lat, p.lng,
                                             enhanced_ready, crime))

RunComprehensiveSafetyAnalysis(p, detector, crime) ==
    Query("run_comprehensive_safety_analysis", p,
          run_comprehensive_safety_analysis(red_zones, p.lat, p.lng,
                                            enhanced_ready, detector, crime))

\* the zone store and its own queries
Next ==
    \/ \E i \in 1..Len(ZoneDataMenu) : AddZone(ZoneDataMenu[i], MaxAdds)
    \/ \E zone_id \in RemoveIds : RemoveZone(zone_id)
    \/ \E p \in Points : CheckPointInPolygon(p)
    \/ \E p \in Points : GetZoneInfo(p)
    \/ \E p \in Points : GetNearbyZones(p)
    \/ \E p \in Points : ValidateLocation(p)

Spec == Init /\ [][Next]_vars

\* the verdicts computed from the seeded store and the stores add_zone builds
VerdictNext ==
    \/ \E i \in 1..Len(ZoneDataMenu) : AddZone(ZoneDataMenu[i], MaxVerdictAdds)
    \/ \E p \in Points, c \in 1..Len(CrimeOutcomes) :
          CheckLocationWithCrimeAnalysis(p, CrimeOutcomes[c])
    \/ \E p \in Points, d \in 1..Len(DetectorOutcomes), c \in 1..2 :
          RunComprehensiveSafetyAnalysis(p, DetectorOutcomes[d], CrimeOutcomes[c])

VerdictSpec == Init /\ [][VerdictNext]_vars

\* the breach queries on the seeded store alone
SeedNext ==
    \/ \E p \in SeedPoints : CheckPointInPolygon(p)
    \/ \E p \in SeedPoints : GetZoneInfo(p)

SeedSpec == Init /\ [][SeedNext]_vars

-----------------------------------------------------------------------------
(* The fall detector applied to one IMU batch *)

FallInit ==
    /\ red_zones = SeedZones
    /\ enhanced_ready = FALSE
    /\ n_added = 0
    /\ op = "initialize"
    /\ arg = << >>
    /\ ret = TRUE
    /\ old_zones = << >>
    /\ imu_data \in ImuBatches
    /\ fall_alert = << >>
    /\ now = 0
    /\ user_data_buffer = << >>
    /\ n_batches = 0
    /\ tasks = << >>
    /\ running = 0
    /\ last_writer = << >>
    /\ alert_storage = << >>
    /\ websockets = << >>
    /\ manager_active_connections = << >>
    /\ manager_user_data = << >>
    /\ active_connections = << >>
    /\ sent = << >>
    /\ uuids = 0

DetectFall(user_id) ==
    /\ op = "initialize"
    /\ op' = "_detect_fall_rule_based"
    /\ arg' = user_id
    /\ fall_alert' = detect_fall_rule_based(user_id, imu_data)
    /\ ret' = fall_alert'
    /\ UNCHANGED <<red_zones, enhanced_ready, n_added, old_zones, imu_data>>
    /\ UNCHANGED rule_vars
    /\ UNCHANGED task_vars
    /\ UNCHANGED alert_vars

FallNext == \E user_id \in {"u1"} : DetectFall(user_id)

FallSpec == FallInit /\ [][FallNext]_vars

-----------------------------------------------------------------------------
(* Sensor batches and buffer histories *)

\* a location dict of a sensor batch
Location(lat, lng, speed) == [latitude |-> lat, longitude |-> lng, speed |-> speed]

\* three places: Home, East about 1 km east of it, Far about 22 km north of
\* it, Remote about 330 km north of it
Home(speed) == Location(26900000, 75800000, speed)
East(speed) == Location(26900000, 75810000, speed)
Far(speed)  == Location(27100000, 75800000, speed)
Remote(speed) == Location(29900000, 75800000, speed)

\* IMU batches: ten samples ending in a spike of magnitude 25; a spike
\* followed by ten samples at rest; freefall, impact and stillness over eleven
\* samples; a sample without acceleration_y and _z, nine at rest and a spike
SpikeLast  == Repeat(RestSample, 9) \o << ImpactSample >>
SpikeFirst == << ImpactSample >> \o Repeat(RestSample, 10)
FallImu    == Repeat(FreefallSample, 3) \o Repeat(ImpactSample, 2)
                \o Repeat(FreefallSample, 6)
BrokenImu  == << [acceleration_x |-> 0] >> \o Repeat(RestSample, 9) \o << ImpactSample >>
\* nine samples at rest and a sample without acceleration_y and _z
BrokenLast == Repeat(RestSample, 9) \o << [acceleration_x |-> 0] >>

\* the sensor_data dicts handed to process_data
Batches ==
    << [location |-> Home(0)],
       [location |-> Far(0)],
       [location |-> Home(0), imu_data |-> SpikeLast],
       [location |-> Home(0), imu_data |-> SpikeFirst],
       [location |-> Home(0), imu_data |-> FallImu],
       [location |-> Home(0), imu_data |-> BrokenImu],
       [location |-> Home(0), imu_data |-> BrokenLast],
       [location |-> [latitude |-> 26900000], imu_data |-> SpikeLast],
       [imu_data |-> FallImu],
       [battery_level |-> 50] >>

\* n batches, one every `step` seconds from time `start` on, batch k carrying
\* the location place[k]
Series(start, step, place) ==
    [k \in 1..Len(place) |-> [at |-> start + (k - 1) * step,
                              sensor_data |-> [location |-> place[k]]]]

\* n batches at Home with the given speeds, one every 5 seconds
Drive(start, speeds) ==
    Series(start, 5, [k \in 1..Len(speeds) |-> Home(speeds[k])])

\* Home and East in turn, n times
Zigzag(n) == [k \in 1..n |-> IF k % 2 = 1 THEN Home(0) ELSE East(0)]

\* the buffers after process_data has received batches[k..] for user_id
RECURSIVE Replay(_, _, _, _)
Replay(buffers, user_id, batches, k) ==
    IF k > Len(batches) THEN buffers
    ELSE Replay(update_user_buffer(buffers, batches[k].at, user_id,
                                   batches[k].sensor_data),
                user_id, batches, k + 1)

\* the buffers Replay gives for n batches at Home received one a second from
\* time 0 on, for n seconds within the retention window, written out directly
BurstBuffers(user_id, n) ==
    LET entries == [k \in 1..n |-> [timestamp |-> k - 1,
                                    sensor_data |-> [location |-> Home(0)]]]
    IN  user_id :> [data_history  |-> entries,
                    locations     |-> [k \in 1..Min2(n, max_locations) |->
                                          [timestamp |-> n - Min2(n, max_locations) + k - 1,
                                           location  |-> Home(0)]],
                    last_activity |-> n - 1]

\* the states a run starts from: the buffers left by the batches user u1 has
\* sent earlier, and the time afterwards
Histories ==
    << [buffers |-> << >>, now |-> 0],
       [buffers |-> Replay(<< >>, "u1", Drive(0, <<80, 60, 40, 20>>), 1), now |-> 20],
       [buffers |-> Replay(<< >>, "u1", Drive(0, <<24, 18, 12, 6>>), 1), now |-> 20],
       [buffers |-> Replay(<< >>, "u1", Drive(0, <<150, 110, 70, 30>>), 1), now |-> 20],
       [buffers |-> Replay(<< >>, "u1", Series(0, 5, << Home(0) >>)
                                        \o Drive(18000, <<80, 60, 40, 20>>), 1),
        now |-> 18020],
       [buffers |-> Replay(<< >>, "u1", Series(0, 3600, Repeat(Home(0), 4)), 1),
        now |-> 14400],
       [buffers |-> Replay(<< >>, "u1", Series(0, 3600, Zigzag(5)), 1), now |-> 18000],
       [buffers |-> Replay(<< >>, "u1", Series(0, 3600, Repeat(Home(0), 9)), 1),
        now |-> 32400],
       [buffers |-> Replay(<< >>, "u1", Series(0, 3600, << Remote(0) >> \o Zigzag(19)), 1),
        now |-> 72000] >>

\* the users and the time that may pass between two batches, in seconds
Users == {"u1", "u2"}
Delays == {3600, 90000}

-----------------------------------------------------------------------------
(* The rule-based system as a state machine *)

\* user u1 has sent the batches of one of the histories
RuleInit ==
    /\ red_zones = SeedZones
    /\ enhanced_ready = FALSE
    /\ n_added = 0
    /\ op = "initialize"
    /\ arg = << >>
    /\ ret = TRUE
    /\ old_zones = << >>
    /\ imu_data = << >>
    /\ fall_alert = << >>
    /\ \E h \in 1..Len(Histories) :
          /\ user_data_buffer = Histories[h].buffers
          /\ now = Histories[h].now
    /\ n_batches = 0
    /\ tasks = << >>
    /\ running = 0
    /\ last_writer = << >>
    /\ alert_storage = << >>
    /\ websockets = << >>
    /\ manager_active_connections = << >>
    /\ manager_user_data = << >>
    /\ active_connections = << >>
    /\ sent = << >>
    /\ uuids = 0

\* time passes between two batches
Tick(delay, max_batches) ==
    /\ op # "tick"
    /\ n_batches < max_batches
    /\ now' = now + delay
    /\ op' = "tick"
    /\ arg' = delay
    /\ ret' = TRUE
    /\ UNCHANGED <<red_zones, enhanced_ready, n_added, old_zones>>
    /\ UNCHANGED fall_vars
    /\ UNCHANGED <<user_data_buffer, n_batches>>
    /\ UNCHANGED task_vars
    /\ UNCHANGED alert_vars

\* process_data(user_id, sensor_data) runs from start to end
ProcessData(user_id, sensor_data, max_batches) ==
    /\ n_batches < max_batches
    /\ LET r == process_data(user_data_buffer, now, user_id, sensor_data) IN
       /\ user_data_buffer' = r.buffers
       /\ ret' = r.alerts
    /\ n_batches' = n_batches + 1
    /\ op' = "process_data"
    /\ arg' = [user_id |-> user_id, sensor_data |-> sensor_data]
    /\ UNCHANGED <<red_zones, enhanced_ready, n_added, old_zones>>
    /\ UNCHANGED fall_vars
    /\ UNCHANGED now
    /\ UNCHANGED task_vars
    /\ UNCHANGED alert_vars

RuleNext ==
    \/ \E delay \in Delays : Tick(delay, MaxBatches)
    \/ \E b \in 1..Len(Batches) : ProcessData("u1", Batches[b], MaxBatches)

RuleSpec == RuleInit /\ [][RuleNext]_vars

\* user u1 has sent a batch a second for a quarter of an hour and more
BurstInit ==
    /\ red_zones = SeedZones
    /\ enhanced_ready = FALSE
    /\ n_added = 0
    /\ op = "initialize"
    /\ arg = << >>
    /\ ret = TRUE
    /\ old_zones = << >>
    /\ imu_data = << >>
    /\ fall_alert = << >>
    /\ \E n \in (MAX_DATA_BUFFER_SIZE - MaxBurstSlack)..MAX_DATA_BUFFER_SIZE :
          /\ user_data_buffer = BurstBuffers("u1", n)
          /\ now = n
    /\ n_batches = 0
    /\ tasks = << >>
    /\ running = 0
    /\ last_writer = << >>
    /\ alert_storage = << >>
    /\ websockets = << >>
    /\ manager_active_connections = << >>
    /\ manager_user_data = << >>
    /\ active_connections = << >>
    /\ sent = << >>
    /\ uuids = 0

BurstNext ==
    \/ \E delay \in Delays : Tick(delay, MaxBurstBatches)
    \/ \E b \in 1..Len(Batches) : ProcessData("u1", Batches[b], MaxBurstBatches)

BurstSpec == BurstInit /\ [][BurstNext]_vars

-----------------------------------------------------------------------------
(* process_data calls in flight on the event loop *)

\* whether awaiting that detector suspends the calling process_data: every
\* detector suspending at its first statement
detector_suspends_always(detector) == TRUE

\* whether awaiting that detector suspends the calling process_data, handing
\* the event loop to another task: no detector awaits anything itself, so the
\* await runs it to its end
detector_suspends(detector) == FALSE

\* process_data running its detectors before it updates the buffer
process_data_steps_detect_first == << "fall", "crash", "distress", "update_buffer" >>

\* the statements of process_data in program order
process_data_steps == << "update_buffer", "fall", "crash", "distress" >>

\* the position after step k of process_data
StepAfter(k) == IF k < Len(process_data_steps) THEN k + 1 ELSE 0

\* the step task t is at: "pending" before process_data starts, "done" after
\* it has returned
StepOf(task) ==
    IF task.pc = 0 THEN (IF task.started THEN "done" ELSE "pending")
    ELSE process_data_steps[task.pc]

\* the batches of the calls in flight
PipelineBatches ==
    << [location |-> Home(0)],
       [location |-> Home(0), imu_data |-> FallImu],
       [imu_data |-> SpikeLast] >>

PipelineInit ==
    /\ red_zones = SeedZones
    /\ enhanced_ready = FALSE
    /\ n_added = 0
    /\ op = "initialize"
    /\ arg = << >>
    /\ ret = TRUE
    /\ old_zones = << >>
    /\ imu_data = << >>
    /\ fall_alert = << >>
    /\ \E h \in 1..Len(Histories) :
          /\ user_data_buffer = Histories[h].buffers
          /\ now = Histories[h].now
    /\ n_batches = 0
    /\ tasks = << >>
    /\ running = 0
    /\ last_writer = [user_id \in Users |-> 0]
    /\ alert_storage = << >>
    /\ websockets = << >>
    /\ manager_active_connections = << >>
    /\ manager_user_data = << >>
    /\ active_connections = << >>
    /\ sent = << >>
    /\ uuids = 0

\* receive_sensor_data queues a pipeline for the batch; the pipeline reaches
\* its process_data call at some later time
Receive(user_id, sensor_data) ==
    /\ running = 0
    /\ Len(tasks) < MaxTasks
    /\ tasks' = Append(tasks, [user_id |-> user_id, sensor_data |-> sensor_data,
                               pc |-> 0, started |-> FALSE, alerts |-> << >>])
    /\ op' = "receive_sensor_data"
    /\ arg' = [user_id |-> user_id, sensor_data |-> sensor_data]
    /\ ret' = TRUE
    /\ UNCHANGED <<red_zones, enhanced_ready, n_added, old_zones>>
    /\ UNCHANGED fall_vars
    /\ UNCHANGED rule_vars
    /\ UNCHANGED <<running, last_writer>>
    /\ UNCHANGED alert_vars

\* the idle event loop runs a task that is pending or suspended: a pending
\* task enters process_data
Schedule(t) ==
    /\ running = 0
    /\ StepOf(tasks[t]) # "done"
    /\ running' = t
    /\ tasks' = IF tasks[t].started THEN tasks
                ELSE [tasks EXCEPT ![t].started = TRUE, ![t].pc = 1]
    /\ op' = "schedule"
    /\ arg' = t
    /\ ret' = TRUE
    /\ UNCHANGED <<red_zones, enhanced_ready, n_added, old_zones>>
    /\ UNCHANGED fall_vars
    /\ UNCHANGED rule_vars
    /\ UNCHANGED last_writer
    /\ UNCHANGED alert_vars

\* the running task t executes its next statement `step`, which changes the
\* buffers to `buffers`, appends `alerts` and may hand the event loop over;
\* after the last statement process_data returns the alerts
Step(t, step, buffers, alerts, suspends) ==
    /\ running = t
    /\ StepOf(tasks[t]) = step
    /\ user_data_buffer' = buffers
    /\ tasks' = [tasks EXCEPT ![t].pc = StepAfter(tasks[t].pc),
                              ![t].alerts = tasks[t].alerts \o alerts]
    /\ running' = IF StepAfter(tasks[t].pc) = 0 \/ suspends THEN 0 ELSE t
    /\ op' = IF StepAfter(tasks[t].pc) = 0 THEN "process_data" ELSE step
    /\ arg' = [user_id |-> tasks[t].user_id, sensor_data |-> tasks[t].sensor_data]
    /\ ret' = tasks[t].alerts \o alerts
    /\ UNCHANGED <<red_zones, enhanced_ready, n_added, old_zones>>
    /\ UNCHANGED fall_vars
    /\ UNCHANGED <<now, n_batches>>
    /\ UNCHANGED alert_vars

\* self._update_user_buffer(user_id, sensor_data)
StepUpdateBuffer(t) ==
    /\ Step(t, "update_buffer",
            update_user_buffer(user_data_buffer, now, tasks[t].user_id,
                               tasks[t].sensor_data),
            << >>, FALSE)
    /\ last_writer' = [last_writer EXCEPT ![tasks[t].user_id] = t]

\* if sensor_data.get('imu_data'): await self._detect_fall_rule_based(...)
StepFall(t) ==
    /\ Step(t, "fall", user_data_buffer,
            IF Truthy(tasks[t].sensor_data, "imu_data")
            THEN detect_fall_rule_based(tasks[t].user_id, tasks[t].sensor_data.imu_data)
            ELSE << >>,
            Truthy(tasks[t].sensor_data, "imu_data") /\ detector_suspends("fall"))
    /\ UNCHANGED last_writer

\* if imu_data and location: await self._detect_crash_rule_based(...)
StepCrash(t) ==
    /\ Step(t, "crash", user_data_buffer,
            IF Truthy(tasks[t].sensor_data, "imu_data")
               /\ Truthy(tasks[t].sensor_data, "location")
            THEN detect_crash_rule_based(user_data_buffer, now, tasks[t].user_id,
                                         tasks[t].sensor_data)
            ELSE << >>,
            /\ Truthy(tasks[t].sensor_data, "imu_data")
            /\ Truthy(tasks[t].sensor_data, "location")
            /\ detector_suspends("crash"))
    /\ UNCHANGED last_writer

\* await self._detect_distress_rule_based(...)
StepDistress(t) ==
    /\ Step(t, "distress", user_data_buffer,
            detect_distress_rule_based(user_data_buffer, tasks[t].user_id,
                                       tasks[t].sensor_data),
            detector_suspends("distress"))
    /\ UNCHANGED last_writer

PipelineNext ==
    \/ \E user_id \in Users, b \in 1..Len(PipelineBatches) :
          Receive(user_id, PipelineBatches[b])
    \/ \E t \in 1..Len(tasks) : Schedule(t)
    \/ \E t \in 1..Len(tasks) : StepUpdateBuffer(t)
    \/ \E t \in 1..Len(tasks) : StepFall(t)
    \/ \E t \in 1..Len(tasks) : StepCrash(t)
    \/ \E t \in 1..Len(tasks) : StepDistress(t)

PipelineSpec == PipelineInit /\ [][PipelineNext]_vars

-----------------------------------------------------------------------------
(* The alert service *)

\* an AlertData object as main.py builds it; None for a missing location is
\* written << >>; the timestamp is filled in when the object is built
AlertData(user_id, alert_type, priority, location, confidence, message, t) ==
    [user_id |-> user_id, alert_type |-> alert_type, priority |-> priority,
     location |-> location, confidence |-> confidence, message |-> message,
     timestamp |-> t]

\* store_alert: the alert dict appended to alert_storage; str(uuid.uuid4())
\* is the fresh `id`
store_alert(storage, alert_data, id) ==
    Append(storage,
           [id |-> id,
            user_id |-> alert_data.user_id,
            alert_type |-> alert_data.alert_type,
            priority |-> alert_data.priority,
            message |-> alert_data.message,
            confidence |-> alert_data.confidence,
            timestamp |-> alert_data.timestamp,
            location |-> alert_data.location,
            acknowledged |-> FALSE,
            authorities_notified |-> FALSE])

\* dict.update(values) on a record used as a Python dict
Update(d, values) == values @@ d

\* the index of the first item of the list whose `key` is `value`, 0 without
\* one
FirstWith(list, key, value) ==
    IF \E k \in 1..Len(list) : list[k][key] = value
    THEN CHOOSE k \in 1..Len(list) :
            list[k][key] = value /\ \A j \in 1..(k - 1) : list[j][key] # value
    ELSE 0

\* _update_alert_status: the first stored alert of the user is updated
update_alert_status(storage, user_id, status_update) ==
    LET k == FirstWith(storage, "user_id", user_id) IN
    IF k = 0 THEN storage
    ELSE [storage EXCEPT ![k] = Update(storage[k], status_update)]

\* send_sms_alert at time t: the SMS is logged and the status is recorded
send_sms_alert(storage, alert_data, t) ==
    update_alert_status(storage, alert_data.user_id,
                        [sms_sent |-> TRUE, sms_sent_at |-> t])

\* acknowledge_alert at time t: the stored alert with that id is marked; the
\* result is whether there is one
acknowledge_alert(storage, alert_id, acknowledged_by, t) ==
    LET k == FirstWith(storage, "id", alert_id) IN
    IF k = 0 THEN [alert_storage |-> storage, result |-> FALSE]
    ELSE [alert_storage |->
             [storage EXCEPT ![k] = Update(storage[k],
                                           [acknowledged |-> TRUE,
                                            acknowledged_by |-> acknowledged_by,
                                            acknowledged_at |-> t])],
          result |-> TRUE]

\* send_alert at time t: the alert is stored, sent over the user's WebSocket
\* if `connections` (main.py's module-level active_connections) holds one,
\* passed to notify_authorities, which only logs, and for a critical alert
\* followed by an SMS
send_alert(storage, connections, messages, alert, id, t) ==
    LET stored == store_alert(storage, alert, id)
        notified ==
            IF alert.user_id \in DOMAIN connections
            THEN Append(messages, [websocket |-> connections[alert.user_id],
                                   type |-> "alert", payload |-> alert])
            ELSE messages
    IN  [alert_storage |-> IF alert.priority = "critical"
                           THEN send_sms_alert(stored, alert, t) ELSE stored,
         sent |-> notified]


-----------------------------------------------------------------------------
(* The connection manager and the safety events *)

\* the session dict ConnectionManager.connect creates at time t
NewSession(t) ==
    [connected_at |-> t, last_location |-> << >>, trip_active |-> FALSE,
     safety_events |-> << >>, battery_level |-> 100, processing_mode |-> "high",
     last_sensor_data |-> << >>]

\* del d[key] if key in d
Without(d, key) == [k \in DOMAIN d \ {key} |-> d[k]]

\* ConnectionManager.send_personal_message: sent over the registered
\* WebSocket of the user, if there is one
send_personal_message(connections, messages, type, payload, user_id) ==
    IF user_id \in DOMAIN connections
    THEN Append(messages, [websocket |-> connections[user_id], type |-> type,
                           payload |-> payload])
    ELSE messages

\* the safety event create_safety_event builds at time t
SafetyEvent(id, event_type, severity, message, location, t) ==
    [id |-> id, type |-> event_type, severity |-> severity, message |-> message,
     location |-> location, timestamp |-> t, acknowledged |-> FALSE]

\* handle_acknowledge_alert: the first safety event of the user with that id
\* is marked; a user without a session has none
handle_acknowledge_alert(sessions, user_id, alert_id) ==
    IF user_id \notin DOMAIN sessions THEN sessions
    ELSE LET events == sessions[user_id].safety_events
             k == FirstWith(events, "id", alert_id)
         IN  IF k = 0 THEN sessions
             ELSE [sessions EXCEPT ![user_id].safety_events[k].acknowledged = TRUE]

-----------------------------------------------------------------------------
(* Location processing *)

\* the probability above which the primary detector's answer is an alert, in
\* hundredths
breach_probability_threshold == 70

\* process_location_data at time t, `outcome` being what
\* red_zone_detector.predict_breach does when it is called: the stored
\* alerts and the messages afterwards, and the alerts handed to send_alert
process_location_data(storage, connections, messages, zones, user_id, location, processing_level, outcome, id, t) ==
    LET nothing == [alert_storage |-> storage, sent |-> messages, alerts |-> << >>]
        with(alert) ==
            [alerts |-> << alert >>]
            @@ send_alert(storage, connections, messages, alert, id, t)
        primary == processing_level \in {"high", "medium"}
    IN  IF primary /\ outcome.raised THEN nothing
        ELSE IF primary /\ outcome.value > breach_probability_threshold
        THEN with(AlertData(user_id, "red_zone_breach", "critical", location,
                            outcome.value,
                            << "High-risk area detected with", outcome.value,
                               "confidence" >>, t))
        ELSE IF check_point_in_polygon(zones, location.latitude, location.longitude)
        THEN with(AlertData(user_id, "red_zone_breach", "high", location, 100,
                            "Restricted area detected - Rule-based system", t))
        ELSE nothing

-----------------------------------------------------------------------------
(* The alert service and the connections as a state machine *)

\* the locations reported: the centroid of seeded zone 1, and (26.9000,
\* 75.7800), which is outside every seeded zone
InsideZoneOne == Location(26911350, 75791075, 0)
OutsideZones == Location(26900000, 75780000, 0)
ReportedLocations == {InsideZoneOne, OutsideZones}

\* what RedZoneDetector.predict_breach may do: raise, or return a probability
PrimaryOutcomes ==
    << [raised |-> TRUE, value |-> 0],
       [raised |-> FALSE, value |-> 70],
       [raised |-> FALSE, value |-> 90] >>

ProcessingLevels == {"high", "low"}

AlertInit ==
    /\ red_zones = SeedZones
    /\ enhanced_ready = FALSE
    /\ n_added = 0
    /\ op = "initialize"
    /\ arg = << >>
    /\ ret = TRUE
    /\ old_zones = << >>
    /\ imu_data = << >>
    /\ fall_alert = << >>
    /\ now = 0
    /\ user_data_buffer = << >>
    /\ n_batches = 0
    /\ tasks = << >>
    /\ running = 0
    /\ last_writer = << >>
    /\ alert_storage = << >>
    /\ websockets = << >>
    /\ manager_active_connections = << >>
    /\ manager_user_data = << >>
    /\ active_connections = << >>
    /\ sent = << >>
    /\ uuids = 0

\* websocket_endpoint starts for a new WebSocket: manager.connect
Connect(user_id) ==
    /\ Len(websockets) < MaxSockets
    /\ LET websocket == Len(websockets) + 1 IN
       /\ websockets' = Append(websockets, [user_id |-> user_id, open |-> TRUE])
       /\ manager_active_connections'
             = (user_id :> websocket) @@ manager_active_connections
       /\ manager_user_data' = (user_id :> NewSession(now)) @@ manager_user_data
       /\ op' = "connect"
       /\ arg' = [websocket |-> websocket, user_id |-> user_id]
       /\ ret' = TRUE
    /\ UNCHANGED <<red_zones, enhanced_ready, n_added, old_zones>>
    /\ UNCHANGED fall_vars
    /\ UNCHANGED rule_vars
    /\ UNCHANGED task_vars
    /\ UNCHANGED <<alert_storage, active_connections, sent, uuids>>

\* the client of an open WebSocket goes away: receive_text raises
\* WebSocketDisconnect in its handler, which calls manager.disconnect(user_id)
Disconnect(websocket) ==
    /\ websockets[websocket].open
    /\ LET user_id == websockets[websocket].user_id IN
       /\ websockets' = [websockets EXCEPT ![websocket].open = FALSE]
       /\ manager_active_connections' = Without(manager_active_connections, user_id)
       /\ manager_user_data' = Without(manager_user_data, user_id)
       /\ op' = "disconnect"
       /\ arg' = [websocket |-> websocket, user_id |-> user_id]
       /\ ret' = TRUE
    /\ UNCHANGED <<red_zones, enhanced_ready, n_added, old_zones>>
    /\ UNCHANGED fall_vars
    /\ UNCHANGED rule_vars
    /\ UNCHANGED task_vars
    /\ UNCHANGED <<alert_storage, active_connections, sent, uuids>>

\* create_safety_event(user_id, event_type, severity, message), called by
\* handle_sensor_data when a detector reports a high probability
CreateSafetyEvent(user_id, event_type, severity, message) ==
    /\ uuids < MaxAlerts
    /\ IF user_id \notin DOMAIN manager_user_data
       THEN /\ ret' = << >>
            /\ UNCHANGED <<manager_user_data, sent, uuids>>
       ELSE LET event == SafetyEvent(uuids + 1, event_type, severity, message,
                                     manager_user_data[user_id].last_location, now)
            IN  /\ manager_user_data'
                      = [manager_user_data EXCEPT ![user_id].safety_events
                                                     = Append(@, event)]
                /\ sent' = send_personal_message(manager_active_connections, sent,
                                                 "safety_alert", event, user_id)
                /\ uuids' = uuids + 1
                /\ ret' = event
    /\ op' = "create_safety_event"
    /\ arg' = [user_id |-> user_id, event_type |-> event_type]
    /\ UNCHANGED <<red_zones, enhanced_ready, n_added, old_zones>>
    /\ UNCHANGED fall_vars
    /\ UNCHANGED rule_vars
    /\ UNCHANGED task_vars
    /\ UNCHANGED <<alert_storage, websockets, manager_active_connections,
                   active_connections>>

\* an 'acknowledge_alert' message arrives on an open WebSocket
HandleAcknowledgeAlert(websocket, alert_id) ==
    /\ websockets[websocket].open
    /\ manager_user_data'
          = handle_acknowledge_alert(manager_user_data, websockets[websocket].user_id,
                                     alert_id)
    /\ op' = "handle_acknowledge_alert"
    /\ arg' = [websocket |-> websocket, alert_id |-> alert_id]
    /\ ret' = TRUE
    /\ UNCHANGED <<red_zones, enhanced_ready, n_added, old_zones>>
    /\ UNCHANGED fall_vars
    /\ UNCHANGED rule_vars
    /\ UNCHANGED task_vars
    /\ UNCHANGED <<alert_storage, websockets, manager_active_connections,
                   active_connections, sent, uuids>>

\* alert_service.acknowledge_alert(alert_id, acknowledged_by)
AcknowledgeAlert(alert_id, acknowledged_by) ==
    /\ LET r == acknowledge_alert(alert_storage, alert_id, acknowledged_by, now) IN
       /\ alert_storage' = r.alert_storage
       /\ ret' = r.result
    /\ op' = "acknowledge_alert"
    /\ arg' = [alert_id |-> alert_id, acknowledged_by |-> acknowledged_by]
    /\ UNCHANGED <<red_zones, enhanced_ready, n_added, old_zones>>
    /\ UNCHANGED fall_vars
    /\ UNCHANGED rule_vars
    /\ UNCHANGED task_vars
    /\ UNCHANGED <<websockets, manager_active_connections, manager_user_data,
                   active_connections, sent, uuids>>

\* process_location_data(user_id, location, processing_level)
ProcessLocationData(user_id, location, processing_level, outcome) ==
    /\ uuids < MaxAlerts
    /\ LET r == process_location_data(alert_storage, active_connections, sent,
                                      red_zones, user_id, location, processing_level,
                                      outcome, uuids + 1, now)
       IN  /\ alert_storage' = r.alert_storage
           /\ sent' = r.sent
           /\ uuids' = uuids + Len(r.alerts)
           /\ ret' = r.alerts
    /\ op' = "process_location_data"
    /\ arg' = [user_id |-> user_id, location |-> location,
               processing_level |-> processing_level, outcome |-> outcome]
    /\ UNCHANGED <<red_zones, enhanced_ready, n_added, old_zones>>
    /\ UNCHANGED fall_vars
    /\ UNCHANGED rule_vars
    /\ UNCHANGED task_vars
    /\ UNCHANGED <<websockets, manager_active_connections, manager_user_data,
                   active_connections>>

\* trigger_panic_button(user_id): send_alert with a critical alert
TriggerPanicButton(user_id) ==
    /\ uuids < MaxAlerts
    /\ LET alert == AlertData(user_id, "panic_button", "critical", << >>, 100,
                              "PANIC BUTTON PRESSED - Immediate assistance required",
                              now)
           r == send_alert(alert_storage, active_connections, sent, alert,
                           uuids + 1, now)
       IN  /\ alert_storage' = r.alert_storage
           /\ sent' = r.sent
           /\ ret' = << alert >>
    /\ uuids' = uuids + 1
    /\ op' = "trigger_panic_button"
    /\ arg' = [user_id |-> user_id]
    /\ UNCHANGED <<red_zones, enhanced_ready, n_added, old_zones>>
    /\ UNCHANGED fall_vars
    /\ UNCHANGED rule_vars
    /\ UNCHANGED task_vars
    /\ UNCHANGED <<websockets, manager_active_connections, manager_user_data,
                   active_connections>>

AlertNext ==
    \/ \E user_id \in Users : Connect(user_id)
    \/ \E websocket \in 1..Len(websockets) : Disconnect(websocket)
    \/ \E user_id \in Users :
          CreateSafetyEvent(user_id, "fall", "high", "Potential fall detected")
    \/ \E websocket \in 1..Len(websockets), alert_id \in 1..uuids :
          HandleAcknowledgeAlert(websocket, alert_id)
    \/ \E alert_id \in 1..uuids : AcknowledgeAlert(alert_id, "operator")
    \/ \E user_id \in Users, location \in ReportedLocations,
          processing_level \in ProcessingLevels, k \in 1..Len(PrimaryOutcomes) :
          ProcessLocationData(user_id, location, processing_level, PrimaryOutcomes[k])
    \/ \E user_id \in Users : TriggerPanicButton(user_id)

AlertSpec == AlertInit /\ [][AlertNext]_vars

-----------------------------------------------------------------------------
(* Properties of the zone store *)

\* whether zone's polygon can be evaluated and contains the point p
Contains(zone, p) ==
    LET t == point_in_polygon_ray_casting(p.lat, p.lng, zone.coordinates) IN
    ~t.raised /\ t.value

\* whether zone's coordinates cannot be evaluated
Malformed(zone) ==
    \E i \in 1..Len(zone.coordinates) : ~HasLatLng(zone.coordinates[i])

\* the index of the first zone containing p, 0 when no zone contains it
FirstContaining(zones, p) ==
    IF \E k \in 1..Len(zones) : Contains(zones[k], p)
    THEN CHOOSE k \in 1..Len(zones) :
            /\ Contains(zones[k], p)
            /\ \A j \in 1..(k - 1) : ~Contains(zones[j], p)
    ELSE 0

\* whether scanning zones for p reaches a malformed zone before any match
BreachScanFails(zones, p) ==
    \E k \in 1..Len(zones) :
        /\ Malformed(zones[k])
        /\ \A j \in 1..(k - 1) : ~Contains(zones[j], p)

\* C1: after any add_zone / remove_zone calls from the seeded list, the zones
\* of the store have pairwise distinct ids.
C1_UniqueIds ==
    \A i, j \in 1..Len(red_zones) : i # j => red_zones[i].id # red_zones[j].id

\* C2: remove_zone is idempotent.  For every reachable zone list and every id,
\* removing the id twice gives the list that removing it once gives, and
\* removing an id no zone has returns True and changes nothing; after a
\* remove_zone call a second call with the same id would change nothing.
C2_RemoveIdempotent ==
    /\ \A zone_id \in 0..(Len(SeedZones) + MaxAdds + 1) :
          LET once == remove_zone(red_zones, zone_id) IN
          /\ once.ok
          /\ remove_zone(once.zones, zone_id) = once
          /\ (\A k \in 1..Len(red_zones) : red_zones[k].id # zone_id)
                => once.zones = red_zones
    /\ op = "remove_zone" =>
          /\ ret = TRUE
          /\ remove_zone(red_zones, arg).zones = red_zones
          /\ (\A k \in 1..Len(old_zones) : old_zones[k].id # arg) => red_zones = old_zones

\* C2's case: a first remove_zone(4) took zones out, and the second
\* remove_zone(4) returned True and changed nothing
C2_Witness ==
    /\ op = "remove_zone" /\ arg = 4 /\ ret = TRUE
    /\ red_zones = old_zones
    /\ Len(red_zones) < Len(SeedZones)

\* C3: add_zone with fewer than 3 vertices returns False and leaves the list
\* as it was; a successful add_zone appends exactly one zone, holding the
\* given coordinates, at the end and changes no zone that was there.
C3_AddZoneEffect ==
    op = "add_zone" =>
        /\ Len(Get(arg, "coordinates", << >>)) < 3 => ret = FALSE
        /\ ret = FALSE => red_zones = old_zones
        /\ ret = TRUE =>
              /\ Len(red_zones) = Len(old_zones) + 1
              /\ SubSeq(red_zones, 1, Len(old_zones)) = old_zones
              /\ red_zones[Len(red_zones)].coordinates = arg.coordinates
              /\ Len(arg.coordinates) >= 3

\* C3's case: add_zone was handed a polygon of two vertices
C3_Witness ==
    /\ op = "add_zone" /\ ret = FALSE
    /\ "coordinates" \in DOMAIN arg /\ Len(arg.coordinates) = 2
    /\ red_zones = old_zones /\ Len(red_zones) >= 1

\* C4: get_zone_info returns the first zone in insertion order whose polygon
\* contains the point and the 'Safe Area' result exactly when no zone contains
\* it; check_point_in_polygon is true exactly when get_zone_info reports a breach.
C4_FirstMatch ==
    /\ op = "get_zone_info" =>
          LET k == FirstContaining(red_zones, arg) IN
          IF k > 0 THEN ret = BreachInfo(red_zones[k]) ELSE ret = SafeAreaInfo
    /\ op = "check_point_in_polygon" =>
          (ret <=> get_zone_info(red_zones, arg.lat, arg.lng).breach_detected)

\* C8: the queries never claim danger because of a geometry failure: when the
\* scan for a breach fails, check_point_in_polygon returns False and
\* validate_location returns a not-breached result; when a zone's centre
\* cannot be computed, get_nearby_zones returns the empty list (also inside
\* validate_location).
C8_FailuresGiveSafeDefaults ==
    /\ (op = "check_point_in_polygon" /\ BreachScanFails(red_zones, arg)) => ret = FALSE
    /\ (op = "get_nearby_zones" /\ \E k \in 1..Len(red_zones) : Malformed(red_zones[k]))
          => ret = << >>
    /\ (op = "validate_location" /\ BreachScanFails(red_zones, arg)) =>
          /\ ret.is_safe /\ ret.risk_level = 0
          /\ ret.zone_info = NoneInfo
          /\ ret.nearby_zones = << >>

\* C8's case: check_point_in_polygon ran into a malformed zone while a later
\* zone contains the point
C8_Witness ==
    /\ op = "check_point_in_polygon" /\ ret = FALSE
    /\ BreachScanFails(red_zones, arg)
    /\ \E k \in 1..Len(red_zones) : Contains(red_zones[k], arg)

-----------------------------------------------------------------------------
(* Properties of the verdicts *)

\* the risk a check_location_with_crime_analysis result reports, in tenths
ReportedRisk(r) == Get(r, "combined_risk_level", r.risk_level * 10)

\* C5: for a point inside some zone of the store, check_location_with_crime_analysis
\* reports is_safe false and a risk of at least the breached zone's risk_level,
\* whatever the crime scorer returns.
C5_ZonePriority ==
    (op = "check_location_with_crime_analysis" /\ FirstContaining(red_zones, arg) > 0) =>
        /\ ret.is_safe = FALSE
        /\ ReportedRisk(ret) >= red_zones[FirstContaining(red_zones, arg)].risk_level * 10

\* C6: in every verdict, is_safe is true exactly when the reported score is
\* at most 4.0.
C6_SafeMatchesScore ==
    /\ op = "run_comprehensive_safety_analysis" =>
          (ret.is_safe <=> ret.overall_risk_score <= 40)
    /\ op = "check_location_with_crime_analysis" =>
          (ret.is_safe <=> ReportedRisk(ret) <= 40)

\* C7: a latitude outside [-90, 90] or a longitude outside [-180, 180] is
\* never accepted as safe (is_safe true with risk_level 0).
C7_InvalidCoordinatesFailClosed ==
    (op = "check_location_with_crime_analysis" /\ ~validate_coordinates(arg.lat, arg.lng))
        => ~(ret.is_safe /\ ret.risk_level = 0)

-----------------------------------------------------------------------------
(* Properties of the fall detector *)

\* 10 samples of freefall, 5 of impact, 15 at rest
FallScenario ==
    Repeat(FreefallSample, 10) \o Repeat(ImpactSample, 5) \o Repeat(RestSample, 15)

\* C9: the 30-sample sequence (10 at magnitude 1, 5 at magnitude 25, 15 at
\* magnitude 10) yields exactly one fall_detected alert, critical, confidence 0.75.
C9_FallScenarioDetected ==
    (op = "_detect_fall_rule_based" /\ imu_data = FallScenario) =>
        /\ Len(fall_alert) = 1
        /\ fall_alert[1].alert_type = "fall_detected"
        /\ fall_alert[1].priority = "critical"
        /\ fall_alert[1].confidence = 75

\* the three phases at offset i, the ten samples i .. i+9
ThreePhasesAt(imu, i) ==
    /\ \A j \in i..(i + 2) : MagSqAt(imu, j) < Sq(freefall_g_max)
    /\ \E j \in (i + 3)..(i + 4) : MagSqAt(imu, j) > Sq(impact_g_threshold)
    /\ \A j \in (i + 5)..(i + 9) : MagSqAt(imu, j) < Sq(stillness_threshold)

\* C10: with at least 10 samples the detector emits fall_detected exactly when
\* the three phases hold at some offset i at which samples i .. i+9 fit in the
\* window; with fewer than 10 samples it emits nothing.
C10_ScansEveryOffset ==
    (op = "_detect_fall_rule_based" /\ \A k \in 1..Len(imu_data) : HasAcceleration(imu_data[k]))
    =>  IF Len(imu_data) < 10 THEN fall_alert = << >>
        ELSE (fall_alert # << >>
              <=> \E i \in 0..(Len(imu_data) - 10) : ThreePhasesAt(imu_data, i))

-----------------------------------------------------------------------------
(* Properties of the rule-based detectors *)

\* whether alerts holds an alert of that type
HasAlert(alerts, alert_type) ==
    \E k \in 1..Len(alerts) : alerts[k].alert_type = alert_type

\* the alerts of that type, in order
AlertsOf(alerts, alert_type) ==
    SelectSeq(alerts, LAMBDA a : a.alert_type = alert_type)

\* the buffer of the user the last process_data call was for
CallBuffer == user_data_buffer[arg.user_id]

\* the speeds of the user's most recent five buffered entries (fewer when the
\* buffer holds fewer), an entry without a speed counting as 0
RecentFiveSpeeds ==
    LET entries == LastN(CallBuffer.data_history, 5) IN
    [k \in 1..Len(entries) |->
        IF "location" \in DOMAIN entries[k].sensor_data
           /\ "speed" \in DOMAIN entries[k].sensor_data.location
        THEN entries[k].sensor_data.location.speed ELSE 0]

\* how many buffered entries are less than 30 seconds old
RecentWindowSize ==
    Cardinality({ k \in 1..Len(CallBuffer.data_history) :
                    CallBuffer.data_history[k].timestamp > now - 30 })

\* whether some sample of the batch has a magnitude above limit
BatchSpikeAbove(sensor_data, limit) ==
    /\ "imu_data" \in DOMAIN sensor_data
    /\ \E k \in 1..Len(sensor_data.imu_data) :
          /\ HasAcceleration(sensor_data.imu_data[k])
          /\ MagnitudeSq(sensor_data.imu_data[k]) > Sq(limit)

\* C11: whenever the maximum speed over the user's most recent five buffered
\* entries is below min_vehicle_speed, process_data returns no crash_detected
\* alert, whatever the IMU samples and the speed change.
C11_VehicleGate ==
    (op = "process_data"
     /\ \A k \in 1..Len(RecentFiveSpeeds) : RecentFiveSpeeds[k] < min_vehicle_speed)
    => ~HasAlert(ret, "crash_detected")

\* C11's case: five entries in the recent window, speeds falling from 24 to 0
\* km/h, a batch with a spike above 20, and no crash alert
C11_Witness ==
    /\ op = "process_data"
    /\ RecentWindowSize >= 5
    /\ RecentFiveSpeeds[1] = 24 /\ RecentFiveSpeeds[5] = 0
    /\ Truthy(arg.sensor_data, "location")
    /\ BatchSpikeAbove(arg.sensor_data, crash_impact_g_threshold)
    /\ ~HasAlert(ret, "crash_detected")

\* whether every sample of the batch can be read
BatchReadable(sensor_data) ==
    \A k \in 1..Len(sensor_data.imu_data) : HasAcceleration(sensor_data.imu_data[k])

\* the speed change over the most recent five entries, last minus first, km/h
RecentSpeedChange == RecentFiveSpeeds[Len(RecentFiveSpeeds)] - RecentFiveSpeeds[1]

\* C12: with at least five entries in the recent window, the crash detector
\* emits crash_detected (critical, confidence 0.8, at most one) if and only if
\* the recent maximum speed passes the vehicle gate, the deceleration the
\* detector derives from the speed change is below deceleration_threshold, and
\* the maximum magnitude over the batch's IMU samples exceeds
\* impact_g_threshold.
C12_ThreeConditionsJointly ==
    (op = "process_data"
     /\ Truthy(arg.sensor_data, "imu_data") /\ Truthy(arg.sensor_data, "location")
     /\ BatchReadable(arg.sensor_data)
     /\ RecentWindowSize >= 5)
    => /\ HasAlert(ret, "crash_detected")
            <=> /\ \E k \in 1..5 : RecentFiveSpeeds[k] >= min_vehicle_speed
                /\ crash_deceleration(RecentSpeedChange) < deceleration_threshold * 100
                /\ BatchSpikeAbove(arg.sensor_data, crash_impact_g_threshold)
       /\ Len(AlertsOf(ret, "crash_detected")) <= 1
       /\ \A k \in 1..Len(ret) :
             ret[k].alert_type = "crash_detected"
                => ret[k].priority = "critical" /\ ret[k].confidence = 80

\* C13: the deceleration of a crash alert is the speed change between the
\* first and the last recent speed sample, converted from km/h to m/s and
\* divided by the 5 seconds of the window ((delta / 3.6) / 5, here in
\* hundredths and up to rounding), and an alert is only emitted when that
\* deceleration is below deceleration_threshold.
C13_DecelerationInMetresPerSecondSquared ==
    op = "process_data" =>
        \A k \in 1..Len(ret) :
            ret[k].alert_type = "crash_detected" =>
                /\ Abs(ret[k].details.deceleration * 18 - RecentSpeedChange * 100) < 18
                /\ RecentSpeedChange * 10 < deceleration_threshold * 180

\* the four indicators in the order the detector evaluates them, each with
\* its increment in hundredths
IndicatorNames ==
    << "prolonged_inactivity", "erratic_movement", "unusual_location",
       "signal_loss_pattern" >>

IndicatorIncrement ==
    [prolonged_inactivity |-> 30, erratic_movement |-> 20,
     unusual_location |-> 30, signal_loss_pattern |-> 20]

\* which indicators are true of the buffer the last process_data call left
IndicatorTruth ==
    [prolonged_inactivity |->
        check_prolonged_inactivity(user_data_buffer, arg.user_id, stationary_duration),
     erratic_movement |-> check_erratic_movement(user_data_buffer, arg.user_id),
     unusual_location |->
        /\ Truthy(arg.sensor_data, "location")
        /\ check_unusual_location(user_data_buffer, arg.user_id, arg.sensor_data.location),
     signal_loss_pattern |-> check_signal_loss_pattern(user_data_buffer, arg.user_id)]

TrueIndicators == SelectSeq(IndicatorNames, LAMBDA name : IndicatorTruth[name])

RECURSIVE IncrementSum(_, _)
IncrementSum(names, k) ==
    IF k > Len(names) THEN 0
    ELSE IndicatorIncrement[names[k]] + IncrementSum(names, k + 1)

\* C14: process_data returns a distress_detected alert if and only if at least
\* two indicators are true or the sum of the true indicators' increments
\* exceeds 0.5; the alert has priority medium, requires_verification true, the
\* true indicators as its indicators list, and confidence min(sum, 0.9), which
\* lies in [0, 1].
C14_DistressTrigger ==
    op = "process_data" =>
        LET sum      == IncrementSum(TrueIndicators, 1)
            distress == AlertsOf(ret, "distress_detected")
        IN  /\ Len(distress) <= 1
            /\ Len(distress) = 1 <=> (Len(TrueIndicators) >= 2 \/ sum > 50)
            /\ \A k \in 1..Len(distress) :
                  /\ distress[k].priority = "medium"
                  /\ distress[k].details.requires_verification = TRUE
                  /\ distress[k].details.indicators = TrueIndicators
                  /\ distress[k].confidence = Min2(sum, 90)
                  /\ distress[k].confidence >= 0 /\ distress[k].confidence <= 100

\* C14's case: all four indicators are true, the sum 1.0 is capped at 0.9
C14_Witness ==
    /\ op = "process_data"
    /\ Len(TrueIndicators) = 4
    /\ HasAlert(ret, "distress_detected")
    /\ ret[Len(ret)].confidence = 90

\* C30: every distress_detected alert process_data returns lists at least two
\* indicators, and a batch with fewer than two true indicators gets no
\* distress alert: the confidence of one indicator alone never exceeds 0.5.
C30_NoSingleIndicatorDistress ==
    op = "process_data" =>
        LET distress == AlertsOf(ret, "distress_detected") IN
        /\ \A k \in 1..Len(distress) : Len(distress[k].details.indicators) >= 2
        /\ Len(TrueIndicators) < 2 => distress = << >>

\* C30's case: exactly one indicator is true of the batch, and process_data
\* returns no distress alert for it
C30_Witness ==
    /\ op = "process_data"
    /\ Len(TrueIndicators) = 1
    /\ ~HasAlert(ret, "distress_detected")

\* the user's buffer holds exactly five locations, all the same place, recorded
\* 1 hour apart, and five batches with a gap of more than 30 minutes between
\* two consecutive ones
FiveIdenticalLocationsHourly ==
    LET locations == CallBuffer.locations
        data_history == CallBuffer.data_history
    IN  /\ Len(locations) = 5
        /\ \A k \in 2..5 :
              /\ locations[k].location = locations[1].location
              /\ locations[k].timestamp - locations[k-1].timestamp = 3600
        /\ HasLatitudeLongitude(locations[1].location)
        /\ Len(data_history) = 5
        /\ \E k \in 2..5 : data_history[k].timestamp - data_history[k-1].timestamp > 1800

\* C15: for a user whose buffer holds 5 identical locations recorded 1 hour
\* apart, with a gap of more than 30 minutes between consecutive buffered
\* samples, process_data returns a distress_detected alert whose indicators
\* include prolonged_inactivity and signal_loss_pattern.
C15_InactivityScenarioTriggers ==
    (op = "process_data" /\ FiveIdenticalLocationsHourly) =>
        /\ HasAlert(ret, "distress_detected")
        /\ \A k \in 1..Len(ret) :
              ret[k].alert_type = "distress_detected" =>
                 /\ \E j \in 1..Len(ret[k].details.indicators) :
                        ret[k].details.indicators[j] = "prolonged_inactivity"
                 /\ \E j \in 1..Len(ret[k].details.indicators) :
                        ret[k].details.indicators[j] = "signal_loss_pattern"

-----------------------------------------------------------------------------
(* Properties of the per-user buffers *)

\* C16: after a buffer update for a user, no entry of the user's data_history
\* and no entry of the user's locations is older than the 24-hour retention
\* window.
C16_NoEntryOlderThanRetention ==
    op = "process_data" =>
        /\ \A k \in 1..Len(CallBuffer.data_history) :
              CallBuffer.data_history[k].timestamp >= now - retention_seconds
        /\ \A k \in 1..Len(CallBuffer.locations) :
              CallBuffer.locations[k].timestamp >= now - retention_seconds

\* C17: after any sequence of batches for a user, neither the user's
\* data_history nor the user's locations holds more entries than the count
\* cap MAX_DATA_BUFFER_SIZE.
C17_CountCap ==
    op = "process_data" =>
        /\ Len(CallBuffer.data_history) <= MAX_DATA_BUFFER_SIZE
        /\ Len(CallBuffer.locations) <= MAX_DATA_BUFFER_SIZE

-----------------------------------------------------------------------------
(* Properties of process_data *)

\* the position of an alert type in the order fall, crash, distress
AlertRank(alert_type) ==
    IF alert_type = "fall_detected" THEN 1
    ELSE IF alert_type = "crash_detected" THEN 2 ELSE 3

\* what makes each detector fire when it does not fail: the three phases at
\* an offset the scan tests; with five recent entries the gate, the
\* deceleration figure and a spike among the last ten samples; two true
\* indicators
FallFires ==
    /\ Truthy(arg.sensor_data, "imu_data")
    /\ Len(arg.sensor_data.imu_data) >= 10
    /\ BatchReadable(arg.sensor_data)
    /\ \E i \in 0..(Len(arg.sensor_data.imu_data) - 11) :
          ThreePhasesAt(arg.sensor_data.imu_data, i)

CrashReachesImu ==
    /\ Truthy(arg.sensor_data, "imu_data") /\ Truthy(arg.sensor_data, "location")
    /\ RecentWindowSize >= 5
    /\ \E k \in 1..5 : RecentFiveSpeeds[k] >= min_vehicle_speed
    /\ crash_deceleration(RecentSpeedChange) < deceleration_threshold * 100

CrashFires ==
    /\ CrashReachesImu
    /\ LET samples == LastN(arg.sensor_data.imu_data, 10) IN
       /\ \A k \in 1..Len(samples) : HasAcceleration(samples[k])
       /\ \E k \in 1..Len(samples) :
             MagnitudeSq(samples[k]) > Sq(crash_impact_g_threshold)

DistressFires == Len(TrueIndicators) >= 2

\* which detector fails internally on the batch: the fall detector reading a
\* sample without the acceleration keys, the crash detector reading one among
\* the last ten samples, an indicator check reading a buffered location
\* without latitude or longitude
FallFails ==
    Truthy(arg.sensor_data, "imu_data") /\ fall_detector_raises(arg.sensor_data.imu_data)

CrashFails ==
    /\ CrashReachesImu
    /\ LET samples == LastN(arg.sensor_data.imu_data, 10) IN
       \E k \in 1..Len(samples) : ~HasAcceleration(samples[k])

IndicatorCheckFails ==
    LET locations == CallBuffer.locations
        recent == LastN(locations, 20)
        last_ten == LastN(locations, 10)
    IN  \/ /\ Len(recent) >= 2
           /\ \/ ~HasLatitudeLongitude(recent[1].location)
              \/ ~HasLatitudeLongitude(recent[Len(recent)].location)
        \/ /\ Len(last_ten) >= 5
           /\ \E k \in 1..Len(last_ten) : ~HasLatitudeLongitude(last_ten[k].location)
        \/ /\ Len(locations) >= 10
           /\ Truthy(arg.sensor_data, "location")
           /\ \E k \in 1..Len(locations) : ~HasLatitudeLongitude(locations[k].location)

\* C19: process_data returns at most one alert per detector, in the order
\* fall, crash, distress; and when the fall detector, the crash detector or an
\* indicator check fails internally on a batch, the alert of every other
\* detector that fires for the batch is still returned.
C19_FailuresIsolated ==
    op = "process_data" =>
        /\ \A j, k \in 1..Len(ret) :
              j < k => AlertRank(ret[j].alert_type) < AlertRank(ret[k].alert_type)
        /\ FallFails =>
              /\ CrashFires => HasAlert(ret, "crash_detected")
              /\ DistressFires => HasAlert(ret, "distress_detected")
        /\ CrashFails =>
              /\ FallFires => HasAlert(ret, "fall_detected")
              /\ DistressFires => HasAlert(ret, "distress_detected")
        /\ IndicatorCheckFails =>
              /\ FallFires => HasAlert(ret, "fall_detected")
              /\ CrashFires => HasAlert(ret, "crash_detected")
              /\ DistressFires => HasAlert(ret, "distress_detected")

\* C19's case: the fall detector fails on a sample it cannot read, and the
\* crash and the distress alert of the same batch are returned, in that order
C19_Witness ==
    /\ op = "process_data"
    /\ FallFails /\ CrashFires /\ DistressFires
    /\ Len(ret) = 2
    /\ ret[1].alert_type = "crash_detected"
    /\ ret[2].alert_type = "distress_detected"

-----------------------------------------------------------------------------
(* Properties of the calls in flight *)

\* whether task t is past entering process_data and about to run a detector
InDetection(t) == StepOf(tasks[t]) \in {"fall", "crash", "distress"}

\* whether the newest buffered entries of task t's user are task t's batch,
\* buffered at the present time
NewestEntryIsBatchOf(t) ==
    /\ tasks[t].user_id \in DOMAIN user_data_buffer
    /\ LET buffer == user_data_buffer[tasks[t].user_id] IN
       /\ Len(buffer.data_history) >= 1
       /\ buffer.data_history[Len(buffer.data_history)]
             = [timestamp |-> now, sensor_data |-> tasks[t].sensor_data]
       /\ Truthy(tasks[t].sensor_data, "location") =>
             /\ Len(buffer.locations) >= 1
             /\ buffer.locations[Len(buffer.locations)]
                   = [timestamp |-> now, location |-> tasks[t].sensor_data.location]

\* C18: whenever process_data is about to run a detector for a batch, the
\* newest entry of the user's data_history is that batch and, when the batch
\* has a location, the newest entry of the user's locations is that location.
C18_BufferUpdatedBeforeDetection ==
    \A t \in 1..Len(tasks) :
        (running = t /\ InDetection(t)) => NewestEntryIsBatchOf(t)

\* C18's case: the crash detector is about to run for a batch with a location
\* of a user who has sent batches before
C18_Witness ==
    \E t \in 1..Len(tasks) :
        /\ running = t /\ StepOf(tasks[t]) = "crash"
        /\ Truthy(tasks[t].sensor_data, "location")
        /\ NewestEntryIsBatchOf(t)
        /\ Len(user_data_buffer[tasks[t].user_id].data_history) >= 2

\* C20: from a batch's buffer update to the end of its detection the event
\* loop stays with that call and no other batch of the same user is buffered:
\* the user's last buffered batch is that call's.
C20_UpdateAndDetectionAtomic ==
    \A t \in 1..Len(tasks) :
        InDetection(t) => (running = t /\ last_writer[tasks[t].user_id] = t)

\* C20's case: two calls for the same user are in flight, one between its
\* buffer update and the end of its detection, the other not yet started
C20_Witness ==
    \E t1, t2 \in 1..Len(tasks) :
        /\ t1 # t2
        /\ tasks[t1].user_id = tasks[t2].user_id
        /\ InDetection(t1) /\ last_writer[tasks[t1].user_id] = t1
        /\ StepOf(tasks[t2]) = "pending"

-----------------------------------------------------------------------------
(* Properties of the buffers of different users *)

\* the buffers with every user but user_id forgotten
OwnBuffers(buffers, user_id) ==
    [u \in DOMAIN buffers \cap {user_id} |-> buffers[u]]

\* what the statement `step` of process_data appends to the alerts, computed
\* from the given buffers
StepAlerts(step, buffers, t, user_id, sensor_data) ==
    IF step = "fall"
    THEN (IF Truthy(sensor_data, "imu_data")
          THEN detect_fall_rule_based(user_id, sensor_data.imu_data) ELSE << >>)
    ELSE IF step = "crash"
    THEN (IF Truthy(sensor_data, "imu_data") /\ Truthy(sensor_data, "location")
          THEN detect_crash_rule_based(buffers, t, user_id, sensor_data) ELSE << >>)
    ELSE IF step = "distress"
    THEN detect_distress_rule_based(buffers, user_id, sensor_data)
    ELSE << >>

\* whether this step is a statement of process_data run by the task that has
\* the event loop
ProcessDataStep == running # 0 /\ op' \in {"update_buffer", "fall", "crash", "distress",
                                           "process_data"}

\* C21: a statement of process_data run for user A leaves the buffer of every
\* other user B as it was (B gains no buffer, loses none, and no entry of it
\* changes), changes A's buffer as it would with A's buffer alone, and appends
\* the alerts it would append with A's buffer alone.
C21_UsersIndependent ==
    [][ProcessDataStep =>
        LET task == tasks[running]
            A == task.user_id
            own == OwnBuffers(user_data_buffer, A)
        IN  /\ \A B \in Users \ {A} :
                  /\ B \in DOMAIN user_data_buffer' <=> B \in DOMAIN user_data_buffer
                  /\ B \in DOMAIN user_data_buffer =>
                        user_data_buffer'[B] = user_data_buffer[B]
            /\ StepOf(task) = "update_buffer" =>
                  user_data_buffer'[A]
                     = update_user_buffer(own, now, A, task.sensor_data)[A]
            /\ tasks'[running].alerts
                  = task.alerts \o StepAlerts(StepOf(task), own, now, A, task.sensor_data)
    ]_vars

\* C21's case: process_data has returned an alert for one user while another
\* user has a buffer of five batches or more, which is as it was
C21_Witness ==
    /\ op = "process_data"
    /\ ret # << >>
    /\ \E B \in Users \ {arg.user_id} :
          /\ B \in DOMAIN user_data_buffer
          /\ Len(user_data_buffer[B].data_history) >= 5
          /\ \E h \in 1..Len(Histories) :
                /\ B \in DOMAIN Histories[h].buffers
                /\ user_data_buffer[B] = Histories[h].buffers[B]

-----------------------------------------------------------------------------
(* Properties of the stored zones *)

\* C22: every zone in the store has an integer risk_level between 1 and 5,
\* whatever add_zone and remove_zone calls have been made.
C22_RiskLevelInRange ==
    \A k \in 1..Len(red_zones) : red_zones[k].risk_level \in 1..5

-----------------------------------------------------------------------------
(* Properties of the alert service and the connections *)

\* the fields acknowledge_alert sets
AcknowledgementFields == {"acknowledged", "acknowledged_by", "acknowledged_at"}

\* whether the dict `after` is the dict `before` up to the given fields
SameExcept(before, after, fields) ==
    /\ DOMAIN after \ fields = DOMAIN before \ fields
    /\ \A f \in DOMAIN before \ fields : after[f] = before[f]

\* C23: no operation removes a stored alert, changes a field of it or adds a
\* field to it, other than acknowledging it, and acknowledged never goes from
\* true to false.
C23_StoredAlertImmutable ==
    [][/\ Len(alert_storage') >= Len(alert_storage)
       /\ \A k \in 1..Len(alert_storage) :
             /\ SameExcept(alert_storage[k], alert_storage'[k], AcknowledgementFields)
             /\ alert_storage[k].acknowledged => alert_storage'[k].acknowledged
    ]_vars

\* whether this step is a send_alert call
SendAlertStep ==
    /\ op' \in {"process_location_data", "trigger_panic_button"}
    /\ ret' # << >>

\* C29: a send_alert call for a critical alert A records sms_sent on the
\* stored record of A, the newest one, and leaves every alert stored earlier
\* as it was.
C29_SmsRecordedOnItsAlert ==
    [][(SendAlertStep /\ ret'[1].priority = "critical") =>
          LET n == Len(alert_storage') IN
          /\ n = Len(alert_storage) + 1
          /\ alert_storage'[n].id = uuids'
          /\ "sms_sent" \in DOMAIN alert_storage'[n]
          /\ alert_storage'[n].sms_sent
          /\ \A k \in 1..Len(alert_storage) : alert_storage'[k] = alert_storage[k]
    ]_vars

\* C26: a send_alert call for a user whose WebSocket is registered with the
\* connection manager sends the alert over that WebSocket (and stores it).
C26_AlertSentOverWebSocket ==
    [][(SendAlertStep /\ ret'[1].user_id \in DOMAIN manager_active_connections) =>
          /\ Len(alert_storage') = Len(alert_storage) + 1
          /\ Len(sent') = Len(sent) + 1
          /\ sent'[Len(sent')]
                = [websocket |-> manager_active_connections[ret'[1].user_id],
                   type |-> "alert", payload |-> ret'[1]]
    ]_vars

\* C28: when the handler of a WebSocket ends while a newer WebSocket of the
\* same user is open and registered, the newer one stays registered and the
\* user's session stays in user_data.
C28_NewerConnectionStays ==
    [][\A newer \in 1..Len(websockets) :
          (/\ op' = "disconnect"
           /\ newer > arg'.websocket
           /\ websockets[newer].open
           /\ websockets[newer].user_id = arg'.user_id
           /\ arg'.user_id \in DOMAIN manager_active_connections
           /\ manager_active_connections[arg'.user_id] = newer)
          => /\ arg'.user_id \in DOMAIN manager_active_connections'
             /\ manager_active_connections'[arg'.user_id] = newer
             /\ arg'.user_id \in DOMAIN manager_user_data'
             /\ manager_user_data'[arg'.user_id] = manager_user_data[arg'.user_id]
    ]_vars

\* whether the primary detector sent a high-confidence breach alert in the
\* process_location_data call that ran last
PrimaryAlerted ==
    /\ arg.processing_level \in {"high", "medium"}
    /\ ~arg.outcome.raised
    /\ arg.outcome.value > breach_probability_threshold

\* whether the location of that call is inside a red zone
InsideRedZone ==
    \E k \in 1..Len(red_zones) :
        Contains(red_zones[k], Pt(arg.location.latitude, arg.location.longitude))

\* C25: process_location_data sends at most one red_zone_breach alert, and
\* whenever the primary detector does not send its high-confidence alert (low
\* processing level, probability at most 0.7, or an error of the detector) a
\* location inside a red zone gets the rule-based red_zone_breach alert.
C25_RuleBasedFallbackForEveryFailure ==
    op = "process_location_data" =>
        /\ Len(ret) <= 1
        /\ \A k \in 1..Len(ret) : ret[k].alert_type = "red_zone_breach"
        /\ (~PrimaryAlerted /\ InsideRedZone) =>
              /\ Len(ret) = 1
              /\ ret[1].message = "Restricted area detected - Rule-based system"

-----------------------------------------------------------------------------
(* Properties of the breach query on the seeded zones *)

\* whether p is strictly to the left, or strictly to the right, of the line
\* from a to b
LeftOf(a, b, p) == (b.lng - a.lng) * (p.lat - a.lat) > (b.lat - a.lat) * (p.lng - a.lng)
RightOf(a, b, p) == (b.lng - a.lng) * (p.lat - a.lat) < (b.lat - a.lat) * (p.lng - a.lng)

\* whether p is outside the bounding box of the polygon
OutsideBox(p, zone) ==
    LET n == Len(zone.coordinates)
        lats == [k \in 1..n |-> zone.coordinates[k].lat]
        lngs == [k \in 1..n |-> zone.coordinates[k].lng]
    IN  \/ p.lat < MinList(lats) \/ p.lat > MaxList(lats)
        \/ p.lng < MinList(lngs) \/ p.lng > MaxList(lngs)

\* whether p is outside the convex polygon: it is outside the bounding box,
\* or some edge has p strictly on one side and the polygon's centroid
\* strictly on the other
OutsidePolygon(p, zone) ==
    LET polygon == zone.coordinates
        n == Len(polygon)
        c == Centroid(zone)
    IN  IF OutsideBox(p, zone) THEN TRUE
        ELSE \E i \in 1..n :
                LET a == polygon[i]
                    b == polygon[(i % n) + 1]
                IN  \/ LeftOf(a, b, p) /\ RightOf(a, b, c)
                    \/ RightOf(a, b, p) /\ LeftOf(a, b, c)

OutsideAllSeeded(p) == \A k \in 1..Len(SeedZones) : OutsidePolygon(p, SeedZones[k])

SeedCentroids == { Centroid(SeedZones[k]) : k \in 1..Len(SeedZones) }

\* whether the breach query that ran last reported a zone
ReportsZone ==
    IF op = "check_point_in_polygon" THEN ret
    ELSE ~ret.is_none /\ ret.breach_detected

\* C24: on the seeded zones the breach query (check_point_in_polygon and
\* get_zone_info) reports no zone for a point outside every seeded polygon,
\* (26.9000, 75.7800) among them, and reports a zone for the centroid of each
\* seeded zone.
C24_SeededBreachQuery ==
    op \in {"check_point_in_polygon", "get_zone_info"} =>
        /\ OutsideAllSeeded(arg) => ~ReportsZone
        /\ arg \in SeedCentroids => ReportsZone
        /\ OutsideAllSeeded(Pt(26900000, 75780000))

\* C24's case: the centroid of the third seeded zone is reported as a breach
\* of that zone, and a point level with a vertex of a zone, west of it, is
\* outside
C24_Witness ==
    /\ op = "get_zone_info"
    /\ arg = Centroid(SeedZones[3])
    /\ ret.breach_detected /\ ret.zone_id = 3
    /\ \E p \in LevelWithVertices(SeedZones[1]) : OutsideAllSeeded(p)

\* C27: when the store holds a zone whose coordinates cannot be read, a point
\* inside the polygon of a well-formed zone still makes check_point_in_polygon
\* return true and get_zone_info report the breach of a zone that contains
\* the point, wherever the two zones are in the store.
C27_MalformedZoneHidesNothing ==
    (/\ op \in {"check_point_in_polygon", "get_zone_info"}
     /\ \E k \in 1..Len(red_zones) : Malformed(red_zones[k])
     /\ \E k \in 1..Len(red_zones) : Contains(red_zones[k], arg))
    => /\ ReportsZone
       /\ op = "get_zone_info" =>
             \E k \in 1..Len(red_zones) :
                /\ Contains(red_zones[k], arg)
                /\ ret.zone_id = red_zones[k].id

====
